---------------------------- MODULE Spec2Model ----------------------------
(***************************************************************************)
(* A model of the data-query agent's ingestion and introspection code      *)
(* (src/db_manager.py): the numeric-text classifier and the SQL cleaning   *)
(* expressions it synthesizes, and the Spanish long-date normalizer; and   *)
(* of what is built on them: the column summary and the schema document of *)
(* the two backends (src/backends), the backend registry                   *)
(* (src/backend_registry.py), run_query and the execute_sql tool           *)
(* (src/agents.py).                                                        *)
(*                                                                         *)
(* Text is modelled as a sequence of characters, a character being a       *)
(* one-character string; the characters outside ASCII that the code names  *)
(* are the tokens "FWDOLLAR" (U+FF04), "EURO", "POUND", "YEN" and "NBSP"   *)
(* (U+00A0).                                                               *)
(***************************************************************************)
EXTENDS Integers, Sequences, FiniteSets, TLC

VARIABLES
    pieces,      \* SpecLooks: the pieces of the text handed to _looks_numeric
    verdict,     \* SpecLooks: "none" before the call, then "yes" / "no"
    cols,        \* SpecClassify: column name -> [type, vals] of the stored table
    findings,    \* SpecClassify: the list returned by _detect_numeric_text_columns
    classified,  \* SpecClassify: whether findings is the result for cols
    dateIn,      \* SpecParse: the text handed to _parse_spanish_date
    dateOut,     \* SpecParse: its result, as a cell
    parsePc,     \* SpecParse: "input" before the call, "done" after it
    df,          \* SpecConvert: the data frame, column name -> [dtype, vals]
    dfIn,        \* SpecConvert: the frame as it was handed to the normalizer
    runs,        \* SpecConvert: number of row blocks read so far
    convPc,      \* SpecConvert: "read" while rows are read, "done" after the call
    sumKind,     \* SpecSummary: the backend that holds the table, "sqlite" / "bigquery"
    sumRows,     \* SpecSummary: the rows of the table, column name -> cell
    sumOut,      \* SpecSummary: the last get_column_summary call, [called, arg, list]
    docDb,       \* SpecDoc: the tables of the database, [name, rows], in creation order
    cleaning,    \* SpecDoc: the text returned by get_cleaning_expressions, as lines
    doc,         \* SpecDoc: the text returned by format_schema_for_llm, as lines
    docFound,    \* SpecDoc: the findings the last call's classification returned
    backend,     \* SpecRegistry: BackendRegistry._backend, a handle id or NoBackend
    handles,     \* SpecRegistry: handle id -> the fields of the backend instance
    files,       \* SpecRegistry: database name -> the tables in that database file
    calls,       \* SpecRegistry: the registry calls made so far, in order
    loadedBy,    \* SpecRegistry: handle id -> the tables loaded through that handle
    seen,        \* SpecRegistry: the last schema read through the active handle
    qdb,         \* SpecQuery: the database file, [file, tables]
    qBefore,     \* SpecQuery: the database file as it was before the last call
    qOut,        \* SpecQuery: the last call, [op, outcome, result, log]
    store,       \* SpecLoad: the tables of the database, [name, columns, rows]
    handle,      \* SpecLoad: the SQLiteBackend instance, [file_loaded, table_name]
    loadOut,     \* SpecLoad: the last load_file call, with the state before it
    node,        \* SpecGraph: the node of the ingestion graph that runs next
    messages,    \* SpecGraph: state["messages"], [type, tool_calls, content]
    trace,       \* SpecGraph: the nodes that have run, in order
    schema_description, \* SpecGraph: state["schema_description"]
    activeBackend, \* SpecSystem: the kind of BackendRegistry._backend
    system,      \* SpecSystem: the DataQuerySystem instance, or NoSystem
    sqliteTables, \* SpecSystem: the tables of data.db
    lastAsk,     \* SpecSystem: the last ask, with the schema of its prompt
    session      \* SpecSystem: the running process, [process, data_source]

looksVars    == <<pieces, verdict>>
classifyVars == <<cols, findings, classified>>
parseVars    == <<dateIn, dateOut, parsePc>>
convertVars  == <<df, dfIn, runs, convPc>>
summaryVars  == <<sumKind, sumRows, sumOut>>
docVars      == <<docDb, cleaning, doc, docFound>>
registryVars == <<backend, handles, files, calls, loadedBy, seen>>
queryVars    == <<qdb, qBefore, qOut>>
ingestVars   == <<looksVars, classifyVars, parseVars, convertVars>>
introVars    == <<summaryVars, docVars, registryVars, queryVars>>
loadVars     == <<store, handle, loadOut>>
graphVars    == <<node, messages, trace, schema_description>>
systemVars   == <<activeBackend, system, sqliteTables, lastAsk, session>>
flowVars     == <<loadVars, graphVars, systemVars>>
vars == <<pieces, verdict, cols, findings, classified, dateIn, dateOut, parsePc,
          df, dfIn, runs, convPc, sumKind, sumRows, sumOut, docDb, cleaning, doc,
          docFound, backend, handles, files, calls, loadedBy, seen, qdb, qBefore, qOut,
          store, handle, loadOut, node, messages, trace, schema_description,
          activeBackend, system, sqliteTables, lastAsk, session>>

---------------------------------------------------------------------------
(* Characters and character classes (Python's str methods and re classes). *)

Digits == <<"0", "1", "2", "3", "4", "5", "6", "7", "8", "9">>

UpperLetters == <<"A", "B", "C", "D", "E", "F", "G", "H", "I", "J", "K", "L", "M",
                  "N", "O", "P", "Q", "R", "S", "T", "U", "V", "W", "X", "Y", "Z">>

LowerLetters == <<"a", "b", "c", "d", "e", "f", "g", "h", "i", "j", "k", "l", "m",
                  "n", "o", "p", "q", "r", "s", "t", "u", "v", "w", "x", "y", "z">>

Range(f) == {f[i] : i \in DOMAIN f}

\* str.isdigit / \d
IsDigit(c) == c \in Range(Digits)

\* str.isalpha
IsAlpha(c) == c \in Range(UpperLetters) \cup Range(LowerLetters)

\* \s of a str pattern: Unicode white space, U+00A0 included
IsSpace(c) == c \in {" ", "\t", "\n", "NBSP"}

\* \w
IsWord(c) == IsDigit(c) \/ IsAlpha(c) \/ c = "_"

\* the currency symbols of the character class [$＄€£¥] and of the list at line 337
CurrencySymbols == {"FWDOLLAR", "$", "EURO", "POUND", "YEN"}

\* the code point order of the symbols, which sorted() uses
SymbolRank(c) ==
    CASE c = "$" -> 1 [] c = "POUND" -> 2 [] c = "YEN" -> 3
      [] c = "EURO" -> 4 [] c = "FWDOLLAR" -> 5

DigitValue(c) == (CHOOSE i \in 1..10 : Digits[i] = c) - 1

\* str.lower, one character
ToLower(c) ==
    IF c \in Range(UpperLetters)
    THEN LowerLetters[CHOOSE i \in 1..26 : UpperLetters[i] = c]
    ELSE c

LowerStr(s) == [i \in 1..Len(s) |-> ToLower(s[i])]

---------------------------------------------------------------------------
(* Text helpers.                                                           *)

\* pat occurs in s at position i
MatchAt(s, i, pat) ==
    /\ i >= 1
    /\ i + Len(pat) - 1 <= Len(s)
    /\ \A k \in 1..Len(pat) : s[i + k - 1] = pat[k]

\* Python's  pat in s
Contains(s, pat) == \E i \in 1..(Len(s) + 1) : MatchAt(s, i, pat)

\* the text from position i to the end
Tail2(s, i) == IF i > Len(s) THEN <<>> ELSE SubSeq(s, i, Len(s))

\* the first position at or after i that holds no white space (Len(s)+1 if none)
SkipSpace(s, i) ==
    IF \E j \in i..Len(s) : ~IsSpace(s[j])
    THEN CHOOSE j \in i..Len(s) : ~IsSpace(s[j]) /\ \A k \in i..(j - 1) : IsSpace(s[k])
    ELSE Len(s) + 1

\* the first position at or after i that holds no digit (Len(s)+1 if none)
SkipDigits(s, i) ==
    IF \E j \in i..Len(s) : ~IsDigit(s[j])
    THEN CHOOSE j \in i..Len(s) : ~IsDigit(s[j]) /\ \A k \in i..(j - 1) : IsDigit(s[k])
    ELSE Len(s) + 1

\* sum(1 for c in s if c.isalpha())
AlphaCount(s) == Cardinality({i \in 1..Len(s) : IsAlpha(s[i])})

\* sum(1 for c in s if c.isdigit())
DigitsCount(s) == Cardinality({i \in 1..Len(s) : IsDigit(s[i])})

RECURSIVE Flatten(_)
Flatten(ss) == IF ss = <<>> THEN <<>> ELSE Head(ss) \o Flatten(Tail(ss))

Desde == <<"D", "e", "s", "d", "e">>
From  == <<"F", "r", "o", "m">>

---------------------------------------------------------------------------
(* _looks_numeric                                                          *)

\* a date pattern anchored at both ends: matches a date and nothing longer
IsoDateOnly(v) ==
    /\ Len(v) = 10
    /\ \A i \in {1, 2, 3, 4, 6, 7, 9, 10} : IsDigit(v[i])
    /\ v[5] = "-"
    /\ v[8] = "-"

\* re.match(r'^\d{4}-\d{2}-\d{2}', value)
IsoDatePrefix(v) ==
    /\ Len(v) >= 10
    /\ \A i \in {1, 2, 3, 4, 6, 7, 9, 10} : IsDigit(v[i])
    /\ v[5] = "-"
    /\ v[8] = "-"

\* [Dd]esde at position i, [Ff]rom at position i
DesdeAt(s, i) ==
    /\ i + 4 <= Len(s)
    /\ s[i] \in {"D", "d"}
    /\ MatchAt(s, i + 1, Tail(Desde))

FromAt(s, i) ==
    /\ i + 3 <= Len(s)
    /\ s[i] \in {"F", "f"}
    /\ MatchAt(s, i + 1, Tail(From))

\* re.sub(r'[Dd]esde\s*|[Ff]rom\s*|[$＄€£¥,\s]', '', value), scanning from position i
RECURSIVE StripMarkers(_, _)
StripMarkers(s, i) ==
    IF i > Len(s) THEN <<>>
    ELSE IF DesdeAt(s, i) THEN StripMarkers(s, SkipSpace(s, i + 5))
    ELSE IF FromAt(s, i) THEN StripMarkers(s, SkipSpace(s, i + 4))
    ELSE IF s[i] \in CurrencySymbols \/ s[i] = "," \/ IsSpace(s[i])
         THEN StripMarkers(s, i + 1)
    ELSE <<s[i]>> \o StripMarkers(s, i + 1)

\* \s*-  matches at position i
DashAfterSpace(s, i) ==
    LET j == SkipSpace(s, i) IN j <= Len(s) /\ s[j] = "-"

\* re.split(r'\s*-\s*', cleaned)[0]: the text before the leftmost match
FirstPart(s) ==
    IF \E i \in 1..Len(s) : DashAfterSpace(s, i)
    THEN LET i == CHOOSE i \in 1..Len(s) :
                    DashAfterSpace(s, i) /\ \A k \in 1..(i - 1) : ~DashAfterSpace(s, k)
         IN SubSeq(s, 1, i - 1)
    ELSE s

\* the ratio test with a strict comparison
RatioStrict(alpha, digit) == 10 * alpha < 3 * digit

\* the ratio test with the two counts exchanged
RatioSwapped(alpha, digit) == 10 * digit <= 3 * alpha

\* alpha_count <= digit_count * 0.3, which in IEEE doubles agrees with the
\* exact comparison for every pair of counts
RatioOk(alpha, digit) == 10 * alpha <= 3 * digit

looks_numeric(value) ==
    IF IsoDatePrefix(value) THEN FALSE
    ELSE LET first_part == FirstPart(StripMarkers(value, 1))
             alpha_count == AlphaCount(first_part)
             digit_count == DigitsCount(first_part)
         IN /\ first_part # <<>>
            /\ digit_count > 0
            /\ RatioOk(alpha_count, digit_count)

---------------------------------------------------------------------------
(* The SQLite scalar functions the cleaning expressions use.               *)

\* REPLACE(s, pat, rep): every occurrence of pat, left to right, not overlapping
RECURSIVE SqlReplaceFrom(_, _, _, _)
SqlReplaceFrom(s, pat, rep, i) ==
    IF i > Len(s) THEN <<>>
    ELSE IF MatchAt(s, i, pat) THEN rep \o SqlReplaceFrom(s, pat, rep, i + Len(pat))
    ELSE <<s[i]>> \o SqlReplaceFrom(s, pat, rep, i + 1)

SqlReplace(s, pat, rep) == IF pat = <<>> THEN s ELSE SqlReplaceFrom(s, pat, rep, 1)

\* TRIM(s): removes the spaces (U+0020 only) at both ends
SqlTrim(s) ==
    IF \A i \in 1..Len(s) : s[i] = " " THEN <<>>
    ELSE LET a == CHOOSE i \in 1..Len(s) : s[i] # " " /\ \A k \in 1..(i - 1) : s[k] = " "
             b == CHOOSE i \in 1..Len(s) : s[i] # " " /\ \A k \in (i + 1)..Len(s) : s[k] = " "
         IN SubSeq(s, a, b)

\* INSTR(s, pat): the 1-based position of the first occurrence, 0 if there is none
SqlInstr(s, pat) ==
    IF \E i \in 1..Len(s) : MatchAt(s, i, pat)
    THEN CHOOSE i \in 1..Len(s) : MatchAt(s, i, pat) /\ \A k \in 1..(i - 1) : ~MatchAt(s, k, pat)
    ELSE 0

\* SUBSTR(s, start, n) and SUBSTR(s, start), for start >= 1 and n >= 0 (the
\* expressions call it with start = 1 or start = INSTR + len(sep))
SqlSubstr3(s, start, n) ==
    LET last == IF start + n - 1 < Len(s) THEN start + n - 1 ELSE Len(s)
    IN IF start > Len(s) \/ n <= 0 THEN <<>> ELSE SubSeq(s, start, last)

SqlSubstr2(s, start) == Tail2(s, start)

\* A REAL is m * 10^e, kept with m not a multiple of 10 (0 is [m |-> 0, e |-> 0])
RECURSIVE Real(_, _)
Real(m, e) ==
    IF m = 0 THEN [m |-> 0, e |-> 0]
    ELSE IF m % 10 = 0 THEN Real(m \div 10, e + 1)
    ELSE [m |-> m, e |-> e]

\* the number the digits s[i..j-1] write
RECURSIVE DigitsValue(_, _, _)
DigitsValue(s, i, j) ==
    IF j <= i THEN 0 ELSE 10 * DigitsValue(s, i, j - 1) + DigitValue(s[j - 1])

\* the white space sqlite3AtoF skips
IsSqlSpace(c) == c \in {" ", "\t", "\n"}

\* CAST(s AS REAL): the longest prefix of s that reads as a number, after
\* leading white space; 0.0 when there is none
CastReal(s) ==
    LET n  == Len(s)
        i0 == IF \E j \in 1..n : ~IsSqlSpace(s[j])
              THEN CHOOSE j \in 1..n : ~IsSqlSpace(s[j]) /\ \A k \in 1..(j - 1) : IsSqlSpace(s[k])
              ELSE n + 1
        signed == i0 <= n /\ s[i0] \in {"-", "+"}
        sign == IF i0 <= n /\ s[i0] = "-" THEN -1 ELSE 1
        i1 == IF signed THEN i0 + 1 ELSE i0
        i2 == SkipDigits(s, i1)
        dot == i2 <= n /\ s[i2] = "."
        i3 == IF dot THEN SkipDigits(s, i2 + 1) ELSE i2
        nInt  == i2 - i1
        nFrac == IF dot THEN i3 - i2 - 1 ELSE 0
        mant == DigitsValue(s, i1, i2) * (10 ^ nFrac)
                  + (IF dot THEN DigitsValue(s, i2 + 1, i3) ELSE 0)
        hasE == i3 <= n /\ s[i3] \in {"e", "E"}
        j0 == i3 + 1
        esigned == hasE /\ j0 <= n /\ s[j0] \in {"-", "+"}
        esign == IF hasE /\ j0 <= n /\ s[j0] = "-" THEN -1 ELSE 1
        j1 == IF esigned THEN j0 + 1 ELSE j0
        j2 == SkipDigits(s, j1)
        expo == IF hasE /\ j2 > j1 THEN esign * DigitsValue(s, j1, j2) ELSE 0
    IN IF nInt + nFrac = 0 THEN Real(0, 0)
       ELSE Real(sign * mant, expo - nFrac)

---------------------------------------------------------------------------
(* SQL expressions: what the f-strings of _detect_numeric_text_columns     *)
(* build, kept as syntax trees.  SqlText gives the expression's text.      *)

Node(op, args, text, num) == [op |-> op, args |-> args, text |-> text, num |-> num]

ColRef          == Node("col", <<>>, <<>>, 0)
TextLit(t)      == Node("text", <<>>, t, 0)
IntLit(n)       == Node("int", <<>>, <<>>, n)
Replace(x, t)   == Node("REPLACE", <<x, TextLit(t), TextLit(<<>>)>>, <<>>, 0)
Trim(x)         == Node("TRIM", <<x>>, <<>>, 0)
Instr(x, t)     == Node("INSTR", <<x, TextLit(t)>>, <<>>, 0)
Substr3(x, a, n) == Node("SUBSTR", <<x, a, n>>, <<>>, 0)
Substr2(x, a)   == Node("SUBSTR", <<x, a>>, <<>>, 0)
Minus(a, b)     == Node("-", <<a, b>>, <<>>, 0)
Plus(a, b)      == Node("+", <<a, b>>, <<>>, 0)
Greater(a, b)   == Node(">", <<a, b>>, <<>>, 0)
CaseWhen(c, t, e) == Node("CASE", <<c, t, e>>, <<>>, 0)
CastAsReal(x)   == Node("CAST", <<x>>, <<>>, 0)

\* the value of expression e in a row whose column holds the text v
RECURSIVE Eval(_, _)
Eval(e, v) ==
    LET A(i) == Eval(e.args[i], v) IN
    CASE e.op = "col"     -> v
      [] e.op = "text"    -> e.text
      [] e.op = "int"     -> e.num
      [] e.op = "REPLACE" -> SqlReplace(A(1), A(2), A(3))
      [] e.op = "TRIM"    -> SqlTrim(A(1))
      [] e.op = "INSTR"   -> SqlInstr(A(1), A(2))
      [] e.op = "SUBSTR"  -> IF Len(e.args) = 3 THEN SqlSubstr3(A(1), A(2), A(3))
                                                 ELSE SqlSubstr2(A(1), A(2))
      [] e.op = "-"       -> A(1) - A(2)
      [] e.op = "+"       -> A(1) + A(2)
      [] e.op = ">"       -> A(1) > A(2)
      [] e.op = "CASE"    -> IF A(1) THEN A(2) ELSE A(3)
      [] e.op = "CAST"    -> CastReal(A(1))

\* the expression's text, as a sequence of tokens and characters
RECURSIVE SqlText(_)
SqlText(e) ==
    LET T(i) == SqlText(e.args[i]) IN
    CASE e.op = "col"     -> <<"\"col\"">>
      [] e.op = "text"    -> <<"'">> \o e.text \o <<"'">>
      [] e.op = "int"     -> <<ToString(e.num)>>
      [] e.op = "REPLACE" -> <<"REPLACE(">> \o T(1) \o <<", ">> \o T(2) \o <<", ">> \o T(3) \o <<")">>
      [] e.op = "TRIM"    -> <<"TRIM(">> \o T(1) \o <<")">>
      [] e.op = "INSTR"   -> <<"INSTR(">> \o T(1) \o <<", ">> \o T(2) \o <<")">>
      [] e.op = "SUBSTR"  -> IF Len(e.args) = 3
                             THEN <<"SUBSTR(">> \o T(1) \o <<", ">> \o T(2) \o <<", ">> \o T(3) \o <<")">>
                             ELSE <<"SUBSTR(">> \o T(1) \o <<", ">> \o T(2) \o <<")">>
      [] e.op = "-"       -> T(1) \o <<" - ">> \o T(2)
      [] e.op = "+"       -> T(1) \o <<" + ">> \o T(2)
      [] e.op = ">"       -> T(1) \o <<" > ">> \o T(2)
      [] e.op = "CASE"    -> <<"CASE WHEN ">> \o T(1) \o <<" THEN ">> \o T(2)
                               \o <<" ELSE ">> \o T(3) \o <<" END">>
      [] e.op = "CAST"    -> <<"CAST(">> \o T(1) \o <<" AS REAL)">>


---------------------------------------------------------------------------
(* _detect_numeric_text_columns, for one table of the store.               *)

\* the order PRAGMA table_info lists the table's columns in
ColumnOrder == <<"price", "qty">>

SpacedSep == <<" ", "-", " ">>
TightSep  == <<"-">>

\* [str(r[0]) for r in cursor.fetchall() if r[0]]: SELECT DISTINCT ... IS NOT NULL
\* gives the distinct non-null values, and the filter drops the empty text
DistinctVals(vals) == {v \in vals : v # <<>>}

\* re.match(r'^(Desde|From|desde|from)\s+', v)
HasPrefix(v) ==
    \E w \in {Desde, From, LowerStr(Desde), LowerStr(From)} :
        /\ MatchAt(v, 1, w)
        /\ Len(v) > Len(w)
        /\ IsSpace(v[Len(w) + 1])

\* m.group(0): the word and all the white space after it
PrefixOf(v) ==
    LET w == CHOOSE w \in {Desde, From, LowerStr(Desde), LowerStr(From)} : MatchAt(v, 1, w)
    IN SubSeq(v, 1, SkipSpace(v, Len(w) + 1) - 1)

\* re.search(r'\d\s*-\s*[＄$€£¥]?\d', v)
TightRange(v) ==
    \E i \in 1..Len(v) :
        /\ IsDigit(v[i])
        /\ LET j == SkipSpace(v, i + 1)
               k == SkipSpace(v, j + 1)
           IN /\ j <= Len(v)
              /\ v[j] = "-"
              /\ k <= Len(v)
              /\ \/ IsDigit(v[k])
                 \/ v[k] \in CurrencySymbols /\ k + 1 <= Len(v) /\ IsDigit(v[k + 1])

prefixes_found(dv) == {PrefixOf(v) : v \in {x \in dv : HasPrefix(x)}}

symbols_found(dv) == {sym \in CurrencySymbols : \E v \in dv : Contains(v, <<sym>>)}

has_range_spaced(dv) == \E v \in dv : Contains(v, SpacedSep)

has_range_nospace(dv) == \E v \in dv : ~Contains(v, SpacedSep) /\ TightRange(v)

\* every sequence that lists the members of S once
Orderings(S) ==
    {q \in [1..Cardinality(S) -> S] : \A i, j \in 1..Cardinality(S) : i # j => q[i] # q[j]}

\* sorted(prefixes_found, key=len, reverse=True): longest first; prefixes of one
\* length keep the set's iteration order, which is any order
PrefixOrders(S) ==
    {q \in Orderings(S) : \A i \in 1..(Len(q) - 1) : Len(q[i]) >= Len(q[i + 1])}

\* sorted(symbols_found), each symbol as a text of one character
SortedSymbols(S) ==
    LET q == CHOOSE q \in Orderings(S) :
                 \A i \in 1..(Len(q) - 1) : SymbolRank(q[i]) < SymbolRank(q[i + 1])
    IN [i \in 1..Len(q) |-> <<q[i]>>]

\* expr = f"REPLACE({expr}, '{t}', '')" for t in ts
RECURSIVE ReplaceAll(_, _)
ReplaceAll(expr, ts) ==
    IF ts = <<>> THEN expr ELSE ReplaceAll(Replace(expr, Head(ts)), Tail(ts))

\* lines 346-356
cleaned_alias(prefixOrder, symbols) ==
    Trim(ReplaceAll(ReplaceAll(ColRef, prefixOrder), SortedSymbols(symbols)))

\* lines 361-366
first_num(c, sep) ==
    CaseWhen(Greater(Instr(c, sep), IntLit(0)),
             Trim(Substr3(c, IntLit(1), Minus(Instr(c, sep), IntLit(1)))),
             c)

\* lines 367-372
second_num(c, sep) ==
    CaseWhen(Greater(Instr(c, sep), IntLit(0)),
             Trim(Substr2(c, Plus(Instr(c, sep), IntLit(Len(sep))))),
             c)

\* a choice of separator that takes the tight one whenever a tight range was seen
RangeSepTightFirst(spaced) == TightSep

\* line 359
RangeSep(spaced) == IF spaced THEN SpacedSep ELSE TightSep

\* lines 358-376
expr_min(dv, prefixOrder) ==
    LET c == cleaned_alias(prefixOrder, symbols_found(dv))
        sep == RangeSep(has_range_spaced(dv))
    IN IF has_range_spaced(dv) \/ has_range_nospace(dv)
       THEN CastAsReal(Replace(
                ReplaceAll(first_num(c, sep), SortedSymbols(symbols_found(dv))), <<",">>))
       ELSE CastAsReal(Replace(c, <<",">>))

\* an upper bound that repeats the lower one
ExprMaxAsMin(dv, prefixOrder) == expr_min(dv, prefixOrder)

\* an upper bound that splits at the separator whether or not a range was found
ExprMaxAlwaysSplit(dv, prefixOrder) ==
    LET c == cleaned_alias(prefixOrder, symbols_found(dv))
        sep == RangeSep(has_range_spaced(dv))
    IN CastAsReal(Replace(
           ReplaceAll(second_num(c, sep), SortedSymbols(symbols_found(dv))), <<",">>))

\* lines 358-382
expr_max(dv, prefixOrder) ==
    LET c == cleaned_alias(prefixOrder, symbols_found(dv))
        sep == RangeSep(has_range_spaced(dv))
    IN IF has_range_spaced(dv) \/ has_range_nospace(dv)
       THEN CastAsReal(Replace(
                ReplaceAll(second_num(c, sep), SortedSymbols(symbols_found(dv))), <<",">>))
       ELSE expr_min(dv, prefixOrder)

\* lines 384-398, the tags without the lists they carry
formats_found(dv) ==
    LET tags == (IF has_range_spaced(dv) THEN <<"range_spaced">> ELSE <<>>)
             \o (IF has_range_nospace(dv) THEN <<"range_nospace">> ELSE <<>>)
             \o (IF prefixes_found(dv) # {} THEN <<"prefixes">> ELSE <<>>)
             \o (IF symbols_found(dv) # {} THEN <<"currency_symbols">> ELSE <<>>)
    IN IF tags = <<>> THEN <<"plain">> ELSE tags

\* lines 400-406
Finding(col, dv, prefixOrder) ==
    [table |-> "data", column |-> col, formats_found |-> formats_found(dv),
     expr_min |-> expr_min(dv, prefixOrder), expr_max |-> expr_max(dv, prefixOrder)]

\* line 323
numeric_count(dv) == Cardinality({v \in dv : looks_numeric(v)})

\* a half test that also skips a column of which exactly half qualifies
BelowOrAtHalf(count, n) == 2 * count <= n

\* line 324: numeric_count < len(distinct_vals) * 0.5
BelowHalf(count, n) == 2 * count < n

\* lines 310-325: the column is skipped
Skipped(column) ==
    \/ column.type # "TEXT"
    \/ DistinctVals(column.vals) = {}
    \/ BelowHalf(numeric_count(DistinctVals(column.vals)), Cardinality(DistinctVals(column.vals)))

\* the findings the loop over the columns from position i on can append
RECURSIVE DetectFrom(_, _)
DetectFrom(table, i) ==
    IF i > Len(ColumnOrder) THEN {<<>>}
    ELSE LET col == ColumnOrder[i]
             dv == DistinctVals(table[col].vals)
         IN IF Skipped(table[col]) THEN DetectFrom(table, i + 1)
            ELSE {<<Finding(col, dv, o)>> \o rest :
                     o \in PrefixOrders(prefixes_found(dv)), rest \in DetectFrom(table, i + 1)}

\* the lists _detect_numeric_text_columns can return for the table
detect_numeric_text_columns(table) == DetectFrom(table, 1)


---------------------------------------------------------------------------
(* The values the modelled tables hold.  A numeric value is written from a *)
(* description of what it denotes, so that what an expression extracts can *)
(* be compared with the number that was written.                           *)

\* the decimal digits of n >= 0
RECURSIVE DigitsOf(_)
DigitsOf(n) == IF n < 10 THEN <<Digits[n + 1]>> ELSE DigitsOf(n \div 10) \o <<Digits[(n % 10) + 1]>>

\* a comma before every group of three digits
RECURSIVE WithCommas(_)
WithCommas(ds) ==
    IF Len(ds) <= 3 THEN ds
    ELSE WithCommas(SubSeq(ds, 1, Len(ds) - 3)) \o <<",">> \o SubSeq(ds, Len(ds) - 2, Len(ds))

NumText(n, commas) == IF commas THEN WithCommas(DigitsOf(n)) ELSE DigitsOf(n)

Desc(prefix, sym, lo, sep, hi, commas) ==
    [prefix |-> prefix, sym |-> sym, lo |-> lo, sep |-> sep, hi |-> hi, commas |-> commas]

\* the text of a described value: prefix, symbol, number, and for a range (a
\* value with a separator) the separator, the symbol again and the second
\* number; a value that is no range has hi = lo
Render(d) ==
    d.prefix \o d.sym \o NumText(d.lo, d.commas)
      \o (IF d.sep = <<>> THEN <<>> ELSE d.sep \o d.sym \o NumText(d.hi, d.commas))

\* the last (or only) number of a described value
LastNumber(d) == d.hi

NumDescs ==
    { Desc(<<>>, <<>>, 5, <<>>, 5, FALSE),                      \* 5
      Desc(<<>>, <<>>, 1200, <<>>, 1200, FALSE),                   \* 1200
      Desc(<<>>, <<>>, 1200, <<>>, 1200, TRUE),                    \* 1,200
      Desc(<<>>, <<"$">>, 1200, SpacedSep, 3400, TRUE),            \* $1,200 - $3,400
      Desc(<<>>, <<"$">>, 500, SpacedSep, 900, TRUE),              \* $500 - $900
      Desc(<<>>, <<"EURO">>, 2000, SpacedSep, 10000, TRUE),        \* E2,000 - E10,000
      Desc(<<>>, <<"EURO">>, 7, <<>>, 7, FALSE),                \* E7
      Desc(<<>>, <<>>, 100, TightSep, 200, FALSE),                 \* 100-200
      Desc(Desde \o <<" ">>, <<>>, 100, <<>>, 100, FALSE),        \* Desde 100
      Desc(Desde, <<"$">>, 100, <<>>, 100, FALSE),                \* Desde$100
      Desc(From \o <<" ">>, <<"$">>, 50, SpacedSep, 80, FALSE) }   \* From $50 - $80

IsoDateText == <<"2", "0", "2", "5", "-", "1", "2", "-", "2", "2">>

\* texts that denote no number: a word, the empty text, an ISO date
RawTexts == { <<"a", "b", "c">>, <<>>, IsoDateText }

PricePool == {Render(d) : d \in NumDescs} \cup RawTexts

QtyPool == { <<"7">>, <<"x">> }

Pool(col) == IF col = "price" THEN PricePool ELSE QtyPool

\* the most distinct values a column is given
MaxVals == 3

---------------------------------------------------------------------------
(* SpecClassify: values are loaded into the table's columns, and the       *)
(* classifier is run on the table.                                         *)

IdleLooks    == pieces = <<>> /\ verdict = "none"
IdleClassify == cols = <<>> /\ findings = <<>> /\ classified = FALSE
IdleParse    == dateIn = <<>> /\ dateOut = <<>> /\ parsePc = "idle"
IdleConvert  == df = <<>> /\ dfIn = <<>> /\ runs = 0 /\ convPc = "idle"
IdleSummary  == sumKind = "none" /\ sumRows = <<>> /\ sumOut = <<>>
IdleDoc      == docDb = <<>> /\ cleaning = <<>> /\ doc = <<>> /\ docFound = <<>>
IdleRegistry ==
    /\ backend = 0 /\ handles = <<>> /\ files = <<>>
    /\ calls = <<>> /\ loadedBy = <<>> /\ seen = <<>>
IdleQuery    == qdb = <<>> /\ qBefore = <<>> /\ qOut = <<>>
IdleIngest   == IdleLooks /\ IdleClassify /\ IdleParse /\ IdleConvert
IdleIntro    == IdleSummary /\ IdleDoc /\ IdleRegistry /\ IdleQuery
IdleLoad     == store = <<>> /\ handle = <<>> /\ loadOut = <<>>
IdleGraph    == node = "" /\ messages = <<>> /\ trace = <<>> /\ schema_description = <<>>
IdleSystem   ==
    activeBackend = "" /\ system = <<>> /\ sqliteTables = <<>> /\ lastAsk = <<>> /\ session = <<>>
IdleFlow     == IdleLoad /\ IdleGraph /\ IdleSystem

InitClassify ==
    /\ \E t \in {"TEXT", "INTEGER"} :
          cols = [c \in Range(ColumnOrder) |->
                     [type |-> IF c = "price" THEN "TEXT" ELSE t, vals |-> {}]]
    /\ findings = <<>>
    /\ classified = FALSE
    /\ IdleLooks /\ IdleParse /\ IdleConvert /\ IdleIntro /\ IdleFlow

\* a row whose column col holds the text v is stored (df.to_sql, line 116)
LoadValue(col, v) ==
    /\ Cardinality(cols[col].vals) < MaxVals
    /\ v \notin cols[col].vals
    /\ cols' = [cols EXCEPT ![col].vals = @ \cup {v}]
    /\ findings' = <<>>
    /\ classified' = FALSE
    /\ UNCHANGED <<looksVars, parseVars, convertVars, introVars, flowVars>>

\* _detect_numeric_text_columns()
Classify ==
    /\ ~classified
    /\ findings' \in detect_numeric_text_columns(cols)
    /\ classified' = TRUE
    /\ UNCHANGED <<cols, looksVars, parseVars, convertVars, introVars, flowVars>>

NextClassify ==
    \/ \E col \in Range(ColumnOrder) : \E v \in Pool(col) : LoadValue(col, v)
    \/ Classify

SpecClassify == InitClassify /\ [][NextClassify]_vars

\* the findings of the last classification for column col
FindingsOf(col) == {i \in 1..Len(findings) : findings[i].column = col}


---------------------------------------------------------------------------
(* Claims about the classifier, checked under SpecClassify.                *)

ValueOf(d) == Real(d.lo, 0)

LastValueOf(d) == Real(LastNumber(d), 0)

\* C1: for every qualifying (looks_numeric) value of a column that received a
\* finding, expr_min evaluates to the value's first (or only) number and
\* expr_max to its last (or only) number, whatever mix of the supported
\* formats the column holds.
C1_ExprsYieldFirstAndLast ==
    classified =>
        \A i \in 1..Len(findings) : \A d \in NumDescs :
            (Render(d) \in cols[findings[i].column].vals /\ looks_numeric(Render(d)))
            => /\ Eval(findings[i].expr_min, Render(d)) = ValueOf(d)
               /\ Eval(findings[i].expr_max, Render(d)) = LastValueOf(d)

\* the values of the style "$1,200 - $3,400": currency symbol, thousands
\* commas, spaced separator, no prefix
RangeStyle(d) ==
    /\ d.prefix = <<>>
    /\ d.sym # <<>>
    /\ d.sep = SpacedSep
    /\ d.commas

RangeDescs == {d \in NumDescs : RangeStyle(d)}

\* C2: for a TEXT column whose distinct values are all ranges of the style
\* "$1,200 - $3,400", there is a finding, and on every value its expr_min
\* evaluates to the left number and its expr_max to the right number.
C2_RangeColumn ==
    classified =>
        \A col \in Range(ColumnOrder) :
            (/\ cols[col].type = "TEXT"
             /\ cols[col].vals # {}
             /\ cols[col].vals \subseteq {Render(d) : d \in RangeDescs})
            => /\ FindingsOf(col) # {}
               /\ \A i \in FindingsOf(col) : \A d \in RangeDescs :
                     Render(d) \in cols[col].vals
                     => /\ Eval(findings[i].expr_min, Render(d)) = Real(d.lo, 0)
                        /\ Eval(findings[i].expr_max, Render(d)) = Real(d.hi, 0)

Dollar1200To3400 == Desc(<<>>, <<"$">>, 1200, SpacedSep, 3400, TRUE)

C2_Witness ==
    /\ classified
    /\ cols["price"].vals = {Render(Dollar1200To3400), Render(Desc(<<>>, <<"$">>, 500, SpacedSep, 900, TRUE))}
    /\ \E i \in FindingsOf("price") :
          /\ Eval(findings[i].expr_min, Render(Dollar1200To3400)) = Real(1200, 0)
          /\ Eval(findings[i].expr_max, Render(Dollar1200To3400)) = Real(3400, 0)

RangeDetected(f) ==
    \E k \in 1..Len(f.formats_found) : f.formats_found[k] \in {"range_spaced", "range_nospace"}

\* C3: in every finding, expr_min and expr_max are the same expression text
\* unless a range (spaced or tight) was detected in the column.
C3_SameExprWithoutRange ==
    classified =>
        \A i \in 1..Len(findings) :
            ~RangeDetected(findings[i])
            => SqlText(findings[i].expr_min) = SqlText(findings[i].expr_max)

C3_Witness ==
    /\ classified
    /\ \E i, j \in 1..Len(findings) :
          /\ ~RangeDetected(findings[i])
          /\ SqlText(findings[i].expr_min) = SqlText(findings[i].expr_max)
          /\ RangeDetected(findings[j])
          /\ SqlText(findings[j].expr_min) # SqlText(findings[j].expr_max)

AllDigits(v) == v # <<>> /\ \A k \in 1..Len(v) : IsDigit(v[k])

\* C4: a TEXT column of plain digit strings gets one finding whose expr_min and
\* expr_max are the same expression, and on every value of the column both
\* evaluate to what CAST(value AS REAL) gives.
C4_PlainDigitColumn ==
    classified =>
        \A col \in Range(ColumnOrder) :
            (/\ cols[col].type = "TEXT"
             /\ cols[col].vals # {}
             /\ \A v \in cols[col].vals : AllDigits(v))
            => /\ Cardinality(FindingsOf(col)) = 1
               /\ \A i \in FindingsOf(col) :
                     /\ SqlText(findings[i].expr_min) = SqlText(findings[i].expr_max)
                     /\ \A v \in cols[col].vals :
                           /\ Eval(findings[i].expr_min, v) = Eval(CastAsReal(ColRef), v)
                           /\ Eval(findings[i].expr_max, v) = Eval(CastAsReal(ColRef), v)

C4_Witness ==
    /\ classified
    /\ cols["price"].vals = {<<"5">>, <<"1", "2", "0", "0">>}
    /\ \E i \in FindingsOf("price") : Eval(findings[i].expr_max, <<"1", "2", "0", "0">>) = Real(1200, 0)

\* C7 as stated: no finding for a TEXT column when fewer than half of its
\* non-null distinct values look numeric, exactly one finding when at least
\* half do and the column has a non-empty value.
C7_HalfOfNonNull ==
    classified =>
        \A col \in Range(ColumnOrder) :
            LET vals == cols[col].vals
                n == Cardinality({v \in vals : looks_numeric(v)})
            IN cols[col].type = "TEXT"
               => /\ 2 * n < Cardinality(vals) => FindingsOf(col) = {}
                  /\ (2 * n >= Cardinality(vals) /\ \E v \in vals : v # <<>>)
                     => Cardinality(FindingsOf(col)) = 1

\* C7, amended: the half is taken among the non-null, non-empty distinct
\* values: no finding when fewer than half of them look numeric, exactly one
\* finding when at least half of them do and there is at least one.
C7_HalfOfNonEmpty ==
    classified =>
        \A col \in Range(ColumnOrder) :
            LET vals == {v \in cols[col].vals : v # <<>>}
                n == Cardinality({v \in vals : looks_numeric(v)})
            IN cols[col].type = "TEXT"
               => /\ 2 * n < Cardinality(vals) => FindingsOf(col) = {}
                  /\ (2 * n >= Cardinality(vals) /\ vals # {})
                     => Cardinality(FindingsOf(col)) = 1

C7_Witness ==
    /\ classified
    /\ cols["price"].vals = {<<>>, <<"a", "b", "c">>, <<"5">>}
    /\ Cardinality(FindingsOf("price")) = 1
    /\ cols["qty"].type = "TEXT"
    /\ cols["qty"].vals = {<<"x">>}
    /\ FindingsOf("qty") = {}


---------------------------------------------------------------------------
(* SpecLooks: a text is put together from pieces and handed to             *)
(* _looks_numeric.                                                         *)

\* the pieces a text is put together from
LookPieces ==
    { IsoDateText,                         \* 2025-12-22
      <<"2", "0", "2", "5", "-", "1", "-", "2", "2">>,
      <<"1", "2", "3", "4", "5", "6", "7", "8", "9", "0">>,
      <<"5">>, <<"-">>, <<" ">>, <<"$">>, <<",">>, <<"a">>, <<"a", "b", "c">>,
      Desde, From \o <<" ">> }

\* the most pieces a text is put together from
MaxPieces == 3

Value == Flatten(pieces)

InitLooks ==
    /\ pieces = <<>>
    /\ verdict = "none"
    /\ IdleClassify /\ IdleParse /\ IdleConvert /\ IdleIntro /\ IdleFlow

AddPiece(p) ==
    /\ Len(pieces) < MaxPieces
    /\ pieces' = Append(pieces, p)
    /\ verdict' = "none"
    /\ UNCHANGED <<classifyVars, parseVars, convertVars, introVars, flowVars>>

\* _looks_numeric(value)
Look ==
    /\ verdict = "none"
    /\ verdict' = IF looks_numeric(Value) THEN "yes" ELSE "no"
    /\ UNCHANGED <<pieces, classifyVars, parseVars, convertVars, introVars, flowVars>>

NextLooks ==
    \/ \E p \in LookPieces : AddPiece(p)
    \/ Look

SpecLooks == InitLooks /\ [][NextLooks]_vars

---------------------------------------------------------------------------
(* Claims about _looks_numeric, checked under SpecLooks.                   *)

\* the text begins with four digits, '-', two digits, '-', two digits
BeginsWithIsoDate(v) ==
    /\ Len(v) >= 10
    /\ \A i \in 1..10 : IF i \in {5, 8} THEN v[i] = "-" ELSE v[i] \in Range(Digits)

\* C5: looks_numeric is false for every text that begins with an ISO date
\* (YYYY-MM-DD), whatever follows it.
C5_IsoDateNotNumeric ==
    (verdict # "none" /\ BeginsWithIsoDate(Value)) => verdict = "no"

C5_Witness ==
    /\ verdict = "no"
    /\ Len(pieces) = 3
    /\ pieces[1] = IsoDateText
    /\ pieces[2] = <<" ">>
    /\ pieces[3] = <<"5">>

Letters(v) == Cardinality({i \in 1..Len(v) : v[i] \in Range(UpperLetters) \cup Range(LowerLetters)})

DigitCount(v) == Cardinality({i \in 1..Len(v) : v[i] \in Range(Digits)})

\* C6 as stated: looks_numeric is true for every text that does not begin
\* with an ISO date, holds a digit, and holds at most 0.3 times as many
\* letters as digits.
C6_MostlyDigits ==
    (/\ verdict # "none"
     /\ ~BeginsWithIsoDate(Value)
     /\ DigitCount(Value) >= 1
     /\ 10 * Letters(Value) <= 3 * DigitCount(Value))
    => verdict = "yes"

\* the part of the text before its first '-' (all of it when it holds none)
BeforeDash(v) ==
    IF \E i \in 1..Len(v) : v[i] = "-"
    THEN SubSeq(v, 1, (CHOOSE i \in 1..Len(v) : v[i] = "-" /\ \A k \in 1..(i - 1) : v[k] # "-") - 1)
    ELSE v

\* C6, amended: the digits and letters are counted in the part of the text
\* before its first '-': looks_numeric is true for every text that does not
\* begin with an ISO date and whose part before the first '-' holds a digit
\* and at most 0.3 times as many letters as digits.
C6_MostlyDigitsBeforeDash ==
    (/\ verdict # "none"
     /\ ~BeginsWithIsoDate(Value)
     /\ DigitCount(BeforeDash(Value)) >= 1
     /\ 10 * Letters(BeforeDash(Value)) <= 3 * DigitCount(BeforeDash(Value)))
    => verdict = "yes"

\* ten digits and three letters: the ratio is exactly 0.3
C6_Witness ==
    /\ verdict = "yes"
    /\ Len(pieces) = 3
    /\ pieces[1] = <<"1", "2", "3", "4", "5", "6", "7", "8", "9", "0">>
    /\ pieces[2] = <<"a", "b", "c">>
    /\ pieces[3] = <<"-">>


---------------------------------------------------------------------------
(* _parse_spanish_date                                                     *)

\* a cell of a data frame, and what an Optional[str] is: a str, a missing
\* value (None, NaN), or an object that is no str
Str(text) == [kind |-> "str", text |-> text]
Null      == [kind |-> "null", text |-> <<>>]
Obj(text) == [kind |-> "obj", text |-> text]

\* _SPANISH_MONTHS: the month's number is its position
SpanishMonths ==
   << <<"e", "n", "e", "r", "o">>,
      <<"f", "e", "b", "r", "e", "r", "o">>,
      <<"m", "a", "r", "z", "o">>,
      <<"a", "b", "r", "i", "l">>,
      <<"m", "a", "y", "o">>,
      <<"j", "u", "n", "i", "o">>,
      <<"j", "u", "l", "i", "o">>,
      <<"a", "g", "o", "s", "t", "o">>,
      <<"s", "e", "p", "t", "i", "e", "m", "b", "r", "e">>,
      <<"o", "c", "t", "u", "b", "r", "e">>,
      <<"n", "o", "v", "i", "e", "m", "b", "r", "e">>,
      <<"d", "i", "c", "i", "e", "m", "b", "r", "e">> >>

\* the first position at or after i that holds no word character
SkipWord(s, i) ==
    IF \E j \in i..Len(s) : ~IsWord(s[j])
    THEN CHOOSE j \in i..Len(s) : ~IsWord(s[j]) /\ \A k \in i..(j - 1) : IsWord(s[k])
    ELSE Len(s) + 1

\* str.strip()
PyStrip(s) ==
    IF \A i \in 1..Len(s) : IsSpace(s[i]) THEN <<>>
    ELSE LET a == CHOOSE i \in 1..Len(s) : ~IsSpace(s[i]) /\ \A k \in 1..(i - 1) : IsSpace(s[k])
             b == CHOOSE i \in 1..Len(s) : ~IsSpace(s[i]) /\ \A k \in (i + 1)..Len(s) : IsSpace(s[k])
         IN SubSeq(s, a, b)

\* value.replace('\xa0', ' ').strip()
CleanDate(value) == PyStrip([i \in 1..Len(value) |-> IF value[i] = "NBSP" THEN " " ELSE value[i]])

At(s, i) == IF i >= 1 /\ i <= Len(s) THEN s[i] ELSE "END"

\* _SPANISH_DATE_RE.match(s): where each group of
\*   (\w+)\s+(\d{1,2}),\s*(\d{4}),?\s*(\d{1,2}):(\d{2})\s*(a\.?\s*m\.?|p\.?\s*m\.?)
\* begins and ends, the pattern being matched with re.IGNORECASE.  Every
\* repetition is followed by a character it cannot match, so the greedy match
\* is the only one.
DateMatch(s) ==
    LET w1 == SkipWord(s, 1)                  \* group 1 is s[1..w1-1]
        d0 == SkipSpace(s, w1)                \* group 2 begins
        d1 == SkipDigits(s, d0)               \* group 2 ends before d1
        y0 == SkipSpace(s, d1 + 1)            \* group 3 is s[y0..y0+3]
        c0 == y0 + 4
        c1 == IF At(s, c0) = "," THEN c0 + 1 ELSE c0
        h0 == SkipSpace(s, c1)                \* group 4 begins
        h1 == SkipDigits(s, h0)               \* group 4 ends before h1, s[h1] is ':'
        m0 == h1 + 1                          \* group 5 is s[m0..m0+1]
        a0 == SkipSpace(s, m0 + 2)            \* group 6 begins
        a1 == IF At(s, a0 + 1) = "." THEN a0 + 2 ELSE a0 + 1
        a2 == SkipSpace(s, a1)                \* the 'm'
        a3 == IF At(s, a2 + 1) = "." THEN a2 + 1 ELSE a2   \* group 6 ends at a3
    IN [ok |-> /\ w1 > 1
               /\ d0 > w1
               /\ d1 - d0 \in {1, 2}
               /\ At(s, d1) = ","
               /\ \A i \in y0..(y0 + 3) : IsDigit(At(s, i))
               /\ h1 - h0 \in {1, 2}
               /\ At(s, h1) = ":"
               /\ IsDigit(At(s, m0)) /\ IsDigit(At(s, m0 + 1))
               /\ ToLower(At(s, a0)) \in {"a", "p"}
               /\ ToLower(At(s, a2)) = "m",
        w1 |-> w1, d0 |-> d0, d1 |-> d1, y0 |-> y0, h0 |-> h0, h1 |-> h1,
        m0 |-> m0, a0 |-> a0, a3 |-> a3]

\* m.group(6).replace('.', '').replace(' ', '').lower()
AmPm(g6) == LowerStr(SelectSeq(g6, LAMBDA c : c # "." /\ c # " "))

\* f"{n:02d}" and f"{n:04d}"
Pad2(n) == IF n < 10 THEN <<"0">> \o DigitsOf(n) ELSE DigitsOf(n)

Pad4(n) ==
    IF n < 10 THEN <<"0", "0", "0">> \o DigitsOf(n)
    ELSE IF n < 100 THEN <<"0", "0">> \o DigitsOf(n)
    ELSE IF n < 1000 THEN <<"0">> \o DigitsOf(n)
    ELSE DigitsOf(n)

\* lines 49-52
Hour24(hour, ampm) ==
    IF ampm = <<"p", "m">> /\ hour # 12 THEN hour + 12
    ELSE IF ampm = <<"a", "m">> /\ hour = 12 THEN 0
    ELSE hour

\* _parse_spanish_date(value) for a str value: the ISO text, or None
parse_spanish_date(value) ==
    LET s == CleanDate(value)
        m == DateMatch(s)
        month_name == LowerStr(SubSeq(s, 1, m.w1 - 1))
    IN IF ~m.ok THEN Null
       ELSE IF \A i \in 1..Len(SpanishMonths) : SpanishMonths[i] # month_name THEN Null
       ELSE LET month  == CHOOSE i \in 1..Len(SpanishMonths) : SpanishMonths[i] = month_name
                day    == DigitsValue(s, m.d0, m.d1)
                year   == DigitsValue(s, m.y0, m.y0 + 4)
                minute == DigitsValue(s, m.m0, m.m0 + 2)
                hour   == Hour24(DigitsValue(s, m.h0, m.h1), AmPm(SubSeq(s, m.a0, m.a3)))
            IN Str(Pad4(year) \o <<"-">> \o Pad2(month) \o <<"-">> \o Pad2(day) \o <<" ">>
                     \o Pad2(hour) \o <<":">> \o Pad2(minute) \o <<":", "0", "0">>)


---------------------------------------------------------------------------
(* Long dates as they are written, from what they denote.                  *)

MarkerStyles == {"dots_space", "dots", "plain", "upper", "nbsp", "tab"}

\* the meridiem marker, in one of the spellings the pattern accepts
Marker(pm, style) ==
    LET l == IF pm THEN "p" ELSE "a"
        u == IF pm THEN "P" ELSE "A"
    IN CASE style = "dots_space" -> <<l, ".", " ", "m", ".">>
         [] style = "dots"       -> <<l, ".", "m", ".">>
         [] style = "plain"      -> <<l, "m">>
         [] style = "upper"      -> <<u, ".", " ", "M", ".">>
         [] style = "nbsp"       -> <<l, ".", "NBSP", "m", ".">>
         [] style = "tab"        -> <<l, ".", "\t", "m", ".">>

DateDesc(month, day, year, hour, minute, pm, style) ==
    [month |-> month, day |-> day, year |-> year, hour |-> hour, minute |-> minute,
     pm |-> pm, style |-> style]

\* "diciembre 22, 2025, 4:13 p. m."
RenderDate(d) ==
    SpanishMonths[d.month] \o <<" ">> \o DigitsOf(d.day) \o <<",", " ">> \o DigitsOf(d.year)
      \o <<",", " ">> \o DigitsOf(d.hour) \o <<":">> \o Pad2(d.minute) \o <<" ">>
      \o Marker(d.pm, d.style)

\* the hours of a 12-hour clock
ClockHours == 1..12

DateDescs ==
    { DateDesc(mo, dy, 2025, h, mi, pm, st) :
        mo \in 1..Len(SpanishMonths), dy \in {5, 22}, h \in ClockHours, mi \in {0, 13},
        pm \in BOOLEAN, st \in MarkerStyles }

\* readings the pattern accepts though no calendar or clock shows them:
\* febrero 31, day 0, 13 p. m., minute 75
OffCalendarDescs ==
    { DateDesc(2, 31, 2025, 4, 13, TRUE, "dots_space"),
      DateDesc(1, 0, 2025, 4, 13, FALSE, "dots_space"),
      DateDesc(1, 5, 2025, 13, 0, TRUE, "dots_space"),
      DateDesc(1, 5, 2025, 4, 75, FALSE, "dots_space") }

---------------------------------------------------------------------------
(* SpecParse: a long date is read and handed to _parse_spanish_date.       *)

InitParse ==
    /\ dateIn = <<>>
    /\ dateOut = <<>>
    /\ parsePc = "input"
    /\ IdleLooks /\ IdleClassify /\ IdleConvert /\ IdleIntro /\ IdleFlow

ReadDate(d) ==
    /\ parsePc = "input"
    /\ dateIn = <<>>
    /\ dateIn' = [desc |-> d, text |-> RenderDate(d)]
    /\ UNCHANGED <<dateOut, parsePc, looksVars, classifyVars, convertVars, introVars, flowVars>>

\* _parse_spanish_date(value)
ParseDate ==
    /\ parsePc = "input"
    /\ dateIn # <<>>
    /\ dateOut' = parse_spanish_date(dateIn.text)
    /\ parsePc' = "done"
    /\ UNCHANGED <<dateIn, looksVars, classifyVars, convertVars, introVars, flowVars>>

NextParse ==
    \/ \E d \in DateDescs \cup OffCalendarDescs : ReadDate(d)
    \/ ParseDate

SpecParse == InitParse /\ [][NextParse]_vars

\* the 24-hour hour of a 12-hour clock reading
ExpectedHour(hour, pm) ==
    IF pm THEN (IF hour = 12 THEN 12 ELSE hour + 12)
    ELSE (IF hour = 12 THEN 0 ELSE hour)

\* 'YYYY-MM-DD HH:MM:00'
ExpectedIso(d) ==
    Pad4(d.year) \o <<"-">> \o Pad2(d.month) \o <<"-">> \o Pad2(d.day) \o <<" ">>
      \o Pad2(ExpectedHour(d.hour, d.pm)) \o <<":">> \o Pad2(d.minute) \o <<":", "0", "0">>

\* C10: for a matching long date with a 12-hour clock the normalizer gives
\* 'YYYY-MM-DD HH:MM:00' with the hour converted to the 24-hour clock (12 a. m.
\* is 00, 1..11 a. m. keep the hour, 12 p. m. is 12, 1..11 p. m. add 12).
C10_TwentyFourHour ==
    (parsePc = "done" /\ dateIn.desc \in DateDescs) => dateOut = Str(ExpectedIso(dateIn.desc))

\* C10, for the markers written with ordinary or no-break spaces or none
C10_WithPlainSpaces ==
    (parsePc = "done" /\ dateIn.desc \in DateDescs /\ dateIn.desc.style # "tab") => dateOut = Str(ExpectedIso(dateIn.desc))

---------------------------------------------------------------------------
(* _convert_spanish_date_columns                                           *)

\* df.columns
FrameColumns == <<"fecha", "otra">>

\* head(10), line 61
SampleSize == 10

FirstN(q, n) == IF Len(q) <= n THEN q ELSE SubSeq(q, 1, n)

\* df[col].dropna().head(10)
Sample(vals) == FirstN(SelectSeq(vals, LAMBDA c : c.kind # "null"), SampleSize)

\* _parse_spanish_date(v) for any cell: None unless v is a str
ParseCell(c) == IF c.kind = "str" THEN parse_spanish_date(c.text) ELSE Null

\* converted.notna().sum()
Hits(sample) == Cardinality({i \in 1..Len(sample) : ParseCell(sample[i]).kind # "null"})

\* a threshold test turned around: the column is rewritten when few values match
HitRateBelow(hits, n) == 10 * hits <= 7 * n

\* a threshold that needs more than 70%
HitRateStrict(hits, n) == 10 * hits > 7 * n

\* hit_rate >= 0.7, which for a sample of at most 10 agrees with the exact comparison
HitRateOk(hits, n) == 10 * hits >= 7 * n

\* lines 59-66: the column is rewritten
Rewritten(column) ==
    /\ column.dtype = "object"
    /\ Len(Sample(column.vals)) # 0
    /\ HitRateOk(Hits(Sample(column.vals)), Len(Sample(column.vals)))

\* lambda v: _parse_spanish_date(v) if isinstance(v, str) else v
ConvertCell(c) == IF c.kind = "str" THEN parse_spanish_date(c.text) ELSE c

convert_spanish_date_columns(frame) ==
    [col \in DOMAIN frame |->
        IF Rewritten(frame[col])
        THEN [frame[col] EXCEPT !.vals = [i \in 1..Len(frame[col].vals) |-> ConvertCell(frame[col].vals[i])]]
        ELSE frame[col]]

---------------------------------------------------------------------------
(* SpecConvert: rows are read into a data frame, block by block, and the   *)
(* frame is handed to _convert_spanish_date_columns.                       *)

DateA == DateDesc(12, 22, 2025, 4, 13, TRUE, "dots_space")

NotAvailable == <<"N", "/", "A">>

\* what a cell of column fecha can hold
FechaCells == {Str(RenderDate(DateA)), Str(NotAvailable), Null, Obj(<<"4", "2">>)}

\* column otra holds numbers when it is numeric, and one long date when it is text
OtraCell(dtype) ==
    IF dtype = "object" THEN Str(RenderDate(DateDesc(1, 5, 2024, 12, 0, FALSE, "dots")))
    ELSE Obj(<<"4", "2">>)

\* the lengths of the blocks of equal rows
BlockLengths == {3, 7}

\* the most blocks of rows a frame is read from
MaxRuns == 3

Repeat(c, n) == [i \in 1..n |-> c]

InitConvert ==
    /\ \E t \in {"object", "float64"} :
          df = [c \in Range(FrameColumns) |->
                   [dtype |-> IF c = "fecha" THEN "object" ELSE t, vals |-> <<>>]]
    /\ dfIn = <<>>
    /\ runs = 0
    /\ convPc = "read"
    /\ IdleLooks /\ IdleClassify /\ IdleParse /\ IdleIntro /\ IdleFlow

\* pd.read_csv / pd.read_excel, n more rows
ReadRows(cell, n) ==
    /\ convPc = "read"
    /\ runs < MaxRuns
    /\ df' = [df EXCEPT !["fecha"].vals = @ \o Repeat(cell, n),
                        !["otra"].vals = @ \o Repeat(OtraCell(df["otra"].dtype), n)]
    /\ runs' = runs + 1
    /\ UNCHANGED <<dfIn, convPc, looksVars, classifyVars, parseVars, introVars, flowVars>>

\* df = _convert_spanish_date_columns(df), line 111: applied to the frame that
\* was read (convPc "read" to "done"), and once more to the frame it has
\* returned (convPc "done" to "again")
Convert ==
    /\ convPc \in {"read", "done"}
    /\ dfIn' = df
    /\ df' = convert_spanish_date_columns(df)
    /\ convPc' = (IF convPc = "read" THEN "done" ELSE "again")
    /\ UNCHANGED <<runs, looksVars, classifyVars, parseVars, introVars, flowVars>>

NextConvert ==
    \/ \E cell \in FechaCells : \E n \in BlockLengths : ReadRows(cell, n)
    \/ Convert

SpecConvert == InitConvert /\ [][NextConvert]_vars

---------------------------------------------------------------------------
(* Claims about the normalizer, checked under SpecConvert.                 *)

\* the cells that hold a long date, and the canonical form of what they denote
LongDates == {DateA, DateDesc(1, 5, 2024, 12, 0, FALSE, "dots")}

IsLongDate(c) == \E d \in LongDates : c = Str(RenderDate(d))

CanonicalOf(c) == Str(ExpectedIso(CHOOSE d \in LongDates : c = Str(RenderDate(d))))

\* the first (at most 10) non-null cells of a column
FirstTenNonNull(vals) ==
    LET nn == SelectSeq(vals, LAMBDA c : c # Null)
    IN IF Len(nn) <= 10 THEN nn ELSE SubSeq(nn, 1, 10)

LongDateCount(q) == Cardinality({i \in 1..Len(q) : IsLongDate(q[i])})

\* at least 70% of the first (at most 10) non-null cells hold a long date
AtLeast70Percent(vals) ==
    /\ FirstTenNonNull(vals) # <<>>
    /\ 10 * LongDateCount(FirstTenNonNull(vals)) >= 7 * Len(FirstTenNonNull(vals))

\* C8: when the normalizer rewrites a column (hit rate at least 70%), every
\* value of the column that does not match the long-date pattern is left as it
\* was, and the table keeps its rows and columns.
C8_NonMatchingKept ==
    convPc = "done" =>
        /\ DOMAIN df = DOMAIN dfIn
        /\ \A col \in DOMAIN dfIn :
              /\ Len(df[col].vals) = Len(dfIn[col].vals)
              /\ (dfIn[col].dtype = "object" /\ AtLeast70Percent(dfIn[col].vals))
                 => \A i \in 1..Len(dfIn[col].vals) :
                       ~IsLongDate(dfIn[col].vals[i]) => df[col].vals[i] = dfIn[col].vals[i]

\* C9: the normalizer rewrites a text column if and only if at least 70% of
\* its first (at most 10) non-null values are long dates: below that, and in
\* every column that is not text, every value is unchanged; at or above it,
\* every long date of the column is replaced by its canonical form.
C9_RewrittenIffThreshold ==
    convPc = "done" =>
        \A col \in DOMAIN dfIn :
            IF dfIn[col].dtype = "object" /\ AtLeast70Percent(dfIn[col].vals)
            THEN \A i \in 1..Len(dfIn[col].vals) :
                     IsLongDate(dfIn[col].vals[i]) => df[col].vals[i] = CanonicalOf(dfIn[col].vals[i])
            ELSE df[col] = dfIn[col]

\* seven other values, then seven long dates: 3 of the 10 sampled values match
\* and the column is kept, while the text column otra is rewritten
C9_Witness ==
    /\ convPc = "done"
    /\ dfIn["fecha"].vals = Repeat(Str(NotAvailable), 7) \o Repeat(Str(RenderDate(DateA)), 7)
    /\ df["fecha"] = dfIn["fecha"]
    /\ dfIn["otra"].dtype = "object"
    /\ df["otra"].vals[1] = Str(<<"2", "0", "2", "4", "-", "0", "1", "-", "0", "5", " ", "0", "0", ":", "0", "0", ":", "0", "0">>)

---------------------------------------------------------------------------
(* get_column_summary of the two backends, on a store that holds one table *)
(* "data" with the columns of SummaryColumns, all of them text.  fill_pct  *)
(* is kept in tenths: 700 is 70.0.                                         *)

SummaryColumns == <<"a", "b">>

\* LIMIT 5, db_manager.py line 169
SampleLimit == 5

\* limit: int = 3, bigquery_backend.py line 110
BqSampleLimit == 3

\* round(filled / total * 100, 1), in tenths.  A total below 16 has no
\* quotient that lies halfway between two tenths, and there the double
\* arithmetic of Python gives the nearest tenth.
Round1(filled, total) == (2000 * filled + total) \div (2 * total)

\* the values of column col, row by row
ColumnCells(rows, col) == [i \in 1..Len(rows) |-> rows[i][col]]

\* the sets of n values a query with LIMIT n can return from the distinct
\* values D: SQL states no order for them
Limited(D, n) ==
    {S \in SUBSET D : Cardinality(S) = (IF Cardinality(D) < n THEN Cardinality(D) ELSE n)}

\* col IS NOT NULL AND TRIM(col) != ''
SqliteFilled(c) == c.kind # "null" /\ SqlTrim(c.text) # <<>>

\* SELECT COUNT(*) ... WHERE col IS NOT NULL AND TRIM(col) != '', lines 158-162
sqlite_filled(cells) == Cardinality({i \in 1..Len(cells) : SqliteFilled(cells[i])})

\* SELECT DISTINCT col ... LIMIT 5, lines 166-171
SqliteSamples(cells) ==
    Limited({cells[i].text : i \in {k \in 1..Len(cells) : SqliteFilled(cells[k])}}, SampleLimit)

\* lines 175-183
SqliteItem(table, col, cells, samples) ==
    [table |-> table, column |-> col, type |-> "TEXT",
     filled |-> sqlite_filled(cells), total |-> Len(cells),
     fill_pct |-> IF Len(cells) # 0 THEN Round1(sqlite_filled(cells), Len(cells)) ELSE 0,
     samples |-> samples]

\* lines 154-183: the lists the loop over the columns from position i on can build
RECURSIVE SqliteSummaryFrom(_, _, _)
SqliteSummaryFrom(table, rows, i) ==
    IF i > Len(SummaryColumns) THEN {<<>>}
    ELSE LET col == SummaryColumns[i]
             cells == ColumnCells(rows, col)
         IN IF sqlite_filled(cells) = 0 THEN SqliteSummaryFrom(table, rows, i + 1)
            ELSE {<<SqliteItem(table, col, cells, S)>> \o rest :
                     S \in SqliteSamples(cells), rest \in SqliteSummaryFrom(table, rows, i + 1)}

\* get_column_summary(db_name, table_name) of db_manager: PRAGMA table_info of
\* a table that does not exist returns no column
sqlite_get_column_summary(rows, table_name) ==
    IF table_name \in {"", "data"} THEN SqliteSummaryFrom("data", rows, 1) ELSE {<<>>}

\* what the remote calls of one BigQuery operation do: whether list_tables
\* and get_table fail, and the columns whose sample query and whose fill
\* query fail
BqEnvs ==
    [list : BOOLEAN, table : BOOLEAN,
     sample : SUBSET Range(SummaryColumns), fill : SUBSET Range(SummaryColumns)]

\* _get_sample_values, bigquery_backend.py lines 106-131
get_sample_values(cells, col, env) ==
    IF col \in env.sample THEN {{}}
    ELSE Limited({cells[i].text : i \in {k \in 1..Len(cells) : cells[k].kind # "null"}},
                 BqSampleLimit)

\* lines 86-94: the column lists of the table from position i on
RECURSIVE BqColumnsFrom(_, _, _)
BqColumnsFrom(rows, env, i) ==
    IF i > Len(SummaryColumns) THEN {<<>>}
    ELSE LET col == SummaryColumns[i]
         IN {<<[name |-> col, type |-> "STRING", nullable |-> TRUE, primary_key |-> FALSE,
                sample_values |-> S]>> \o rest :
                S \in get_sample_values(ColumnCells(rows, col), col, env),
                rest \in BqColumnsFrom(rows, env, i + 1)}

\* BigQueryBackend.get_schema_info, lines 73-104
bq_get_schema_info(rows, env) ==
    IF env.list \/ env.table THEN {<<>>}
    ELSE {<<[table_name |-> "data", row_count |-> Len(rows), columns |-> c]>> :
             c \in BqColumnsFrom(rows, env, 1)}

\* COUNTIF(col IS NOT NULL), line 191
bq_filled(cells) == Cardinality({i \in 1..Len(cells) : cells[i].kind # "null"})

\* lines 185-214: the items of the columns of one table from position i on
RECURSIVE BqItemsFrom(_, _, _, _)
BqItemsFrom(table, rows, env, i) ==
    IF i > Len(table.columns) THEN <<>>
    ELSE LET col == table.columns[i]
             cells == ColumnCells(rows, col.name)
             failed == col.name \in env.fill
             total == IF failed THEN table.row_count ELSE Len(cells)
             filled == IF failed THEN 0 ELSE bq_filled(cells)
             fill_pct == IF ~failed /\ total > 0 THEN Round1(filled, total) ELSE 0
             rest == BqItemsFrom(table, rows, env, i + 1)
         IN IF filled = 0 THEN rest
            ELSE <<[table |-> table.table_name, column |-> col.name, type |-> col.type,
                    filled |-> filled, total |-> total, fill_pct |-> fill_pct,
                    samples |-> col.sample_values]>> \o rest

\* BigQueryBackend.get_column_summary, lines 174-216
bq_get_column_summary(rows, table_name, env) ==
    {IF schema = <<>> \/ (table_name # "" /\ schema[1].table_name # table_name)
     THEN <<>>
     ELSE BqItemsFrom(schema[1], rows, env, 1) : schema \in bq_get_schema_info(rows, env)}

---------------------------------------------------------------------------
(* SpecSummary: rows are stored in the table of one backend, and the       *)
(* column summary is asked for.                                            *)

\* the most rows the table is given
MaxRows == 3

SummaryCells(col) ==
    IF col = "a" THEN {Null, Str(<<>>), Str(<<"x">>)} ELSE {Null, Str(<<" ">>)}

SummaryRows == [Range(SummaryColumns) -> {Null, Str(<<>>), Str(<<"x">>), Str(<<" ">>)}]

TableArgs == {"", "data", "otra"}

NoSummary == [called |-> FALSE, arg |-> "", list |-> <<>>]

InitSummary ==
    /\ sumKind \in {"sqlite", "bigquery"}
    /\ sumRows = <<>>
    /\ sumOut = NoSummary
    /\ IdleIngest /\ IdleDoc /\ IdleRegistry /\ IdleQuery /\ IdleFlow

\* the table gets one more row (df.to_sql for the local store)
StoreRow(r) ==
    /\ Len(sumRows) < MaxRows
    /\ \A col \in Range(SummaryColumns) : r[col] \in SummaryCells(col)
    /\ sumRows' = Append(sumRows, r)
    /\ sumOut' = NoSummary
    /\ UNCHANGED <<sumKind, ingestVars, flowVars, docVars, registryVars, queryVars>>

\* get_column_summary of db_manager
SummarizeSqlite(arg) ==
    /\ sumKind = "sqlite"
    /\ \E l \in sqlite_get_column_summary(sumRows, arg) :
          sumOut' = [called |-> TRUE, arg |-> arg, list |-> l]
    /\ UNCHANGED <<sumKind, sumRows, ingestVars, flowVars, docVars, registryVars, queryVars>>

\* BigQueryBackend.get_column_summary
SummarizeBigQuery(arg, env) ==
    /\ sumKind = "bigquery"
    /\ \E l \in bq_get_column_summary(sumRows, arg, env) :
          sumOut' = [called |-> TRUE, arg |-> arg, list |-> l]
    /\ UNCHANGED <<sumKind, sumRows, ingestVars, flowVars, docVars, registryVars, queryVars>>

NextSummary ==
    \/ \E r \in SummaryRows : StoreRow(r)
    \/ \E arg \in TableArgs : SummarizeSqlite(arg)
    \/ \E arg \in TableArgs : \E env \in BqEnvs : SummarizeBigQuery(arg, env)

SpecSummary == InitSummary /\ [][NextSummary]_vars

---------------------------------------------------------------------------
(* Claims about the column summary, checked under SpecSummary.             *)

\* the cell holds a value that is neither null nor the empty string
NonEmpty(c) == c.kind # "null" /\ c.text # <<>>

NonEmptyCount(col) == Cardinality({i \in 1..Len(sumRows) : NonEmpty(sumRows[i][col])})

\* C11: on either backend, every column that get_column_summary lists has a
\* row whose value is neither null nor the empty string; a column all of
\* whose values are null or empty is not listed.
C11_NoEmptyColumnListed ==
    sumOut.called =>
        \A i \in 1..Len(sumOut.list) : NonEmptyCount(sumOut.list[i].column) >= 1

\* C12: for every listed column, fill_pct is filled/total*100 rounded to one
\* decimal, filled being the number of rows whose value is neither null nor
\* empty and total the number of rows of the table.
C12_FillPctOfNonEmpty ==
    sumOut.called =>
        \A i \in 1..Len(sumOut.list) :
            sumOut.list[i].fill_pct = Round1(NonEmptyCount(sumOut.list[i].column), Len(sumRows))


---------------------------------------------------------------------------
(* The schema document: get_schema_info, get_cleaning_expressions and      *)
(* format_schema_for_llm of db_manager.  A database is a list of tables    *)
(* [name, rows] in the order sqlite_master gives them, every table with    *)
(* the columns of ColumnOrder; a text is a list of lines, and a line is    *)
(* [kind, x, y] with the two values the line is formatted from.            *)

Line(kind, x, y) == [kind |-> kind, x |-> x, y |-> y]

\* PRAGMA table_info: the declared type of a column
DeclaredType(col) == IF col = "price" THEN "TEXT" ELSE "INTEGER"

\* the table as the classifier reads it: per column, its type and the
\* values that are not null, str(r[0]) each
Stored(rows) ==
    [c \in Range(ColumnOrder) |->
        [type |-> DeclaredType(c),
         vals |-> {rows[i][c].text : i \in {k \in 1..Len(rows) : rows[k][c].kind # "null"}}]]

\* the findings of one table carry its name
Named(list, name) == [i \in 1..Len(list) |-> [list[i] EXCEPT !.table = name]]

\* _detect_numeric_text_columns over the tables from position i on: lines 304-406
RECURSIVE DetectTables(_, _)
DetectTables(db, i) ==
    IF i > Len(db) THEN {<<>>}
    ELSE {Named(l, db[i].name) \o rest :
             l \in detect_numeric_text_columns(Stored(db[i].rows)),
             rest \in DetectTables(db, i + 1)}

\* SELECT * FROM table LIMIT 3, line 210
SchemaSampleRows == 3

\* lines 217-221 and 227: the values of the first rows that are not None
sample_values(rows, col) ==
    LET first == FirstN(rows, SchemaSampleRows)
        kept == SelectSeq(first, LAMBDA r : r[col].kind # "null")
    IN [i \in 1..Len(kept) |-> kept[i][col].text]

\* lines 214-228
col_info(rows) ==
    [i \in 1..Len(ColumnOrder) |->
        [name |-> ColumnOrder[i], type |-> DeclaredType(ColumnOrder[i]),
         nullable |-> TRUE, primary_key |-> FALSE,
         sample_values |-> sample_values(rows, ColumnOrder[i])]]

\* get_schema_info, lines 189-238
get_schema_info(db) ==
    [i \in 1..Len(db) |->
        [table_name |-> db[i].name, row_count |-> Len(db[i].rows),
         columns |-> col_info(db[i].rows)]]

\* lines 425-432: the lines of one finding, without the expression for the maximum
EntryLinesMinOnly(e) ==
    << Line("finding", e.column, e.table),
       Line("formats", e.formats_found, <<>>),
       Line("min_label", <<>>, <<>>),
       Line("expr", SqlText(e.expr_min), <<>>),
       Line("blank", <<>>, <<>>) >>

\* lines 425-432: the lines of one finding
EntryLines(e) ==
    << Line("finding", e.column, e.table),
       Line("formats", e.formats_found, <<>>),
       Line("min_label", <<>>, <<>>),
       Line("expr", SqlText(e.expr_min), <<>>) >>
    \o (IF e.expr_max # e.expr_min
        THEN << Line("max_label", <<>>, <<>>), Line("expr", SqlText(e.expr_max), <<>>) >>
        ELSE <<>>)
    \o << Line("blank", <<>>, <<>>) >>

RECURSIVE EntriesFrom(_, _)
EntriesFrom(entries, i) ==
    IF i > Len(entries) THEN <<>> ELSE EntryLines(entries[i]) \o EntriesFrom(entries, i + 1)

\* lines 420-436: the text for the entries the classifier returned; the
\* heading ends in a line break, so an empty line follows it
CleaningText(entries) ==
    IF entries = <<>> THEN << Line("none_detected", <<>>, <<>>) >>
    ELSE << Line("section", <<>>, <<>>), Line("blank", <<>>, <<>>) >>
         \o EntriesFrom(entries, 1)
         \o << Line("use_these", <<>>, <<>>), Line("never_plain", <<>>, <<>>) >>

\* get_cleaning_expressions, lines 414-436: the pairs of the classifier's
\* list and the text made from it
get_cleaning_expressions(db) ==
    {[entries |-> e, text |-> CleaningText(e)] : e \in DetectTables(db, 1)}

\* the words format_schema_for_llm looks for, line 464
NoNumericPhrase == <<"N", "o", " ", "n", "u", "m", "e", "r", "i", "c", "-", "a", "s", "-", "t", "e", "x", "t">>

\* "No numeric-as-text" in cleaning: the words are in the line that reports
\* no finding, or in a table name the text quotes; the other lines are fixed
\* text, column names (lower case, line 106), and expressions and formats
\* made of them
HasNoNumericPhrase(text) ==
    \E i \in 1..Len(text) :
        \/ text[i].kind = "none_detected"
        \/ text[i].kind = "finding" /\ Contains(text[i].y, NoNumericPhrase)

\* lines 450-457: the two lines of each column
RECURSIVE ColumnLines(_, _)
ColumnLines(columns, i) ==
    IF i > Len(columns) THEN <<>>
    ELSE << Line("column", columns[i].name, columns[i].type),
            Line("samples", columns[i].sample_values, <<>>) >>
         \o ColumnLines(columns, i + 1)

\* lines 447-460: the table blocks from position i on, an empty line between two
RECURSIVE TableBlocks(_, _)
TableBlocks(schema, i) ==
    IF i > Len(schema) THEN <<>>
    ELSE (IF i > 1 THEN << Line("blank", <<>>, <<>>) >> ELSE <<>>)
         \o << Line("table", schema[i].table_name, schema[i].row_count),
               Line("rule", <<>>, <<>>) >>
         \o ColumnLines(schema[i].columns, 1)
         \o TableBlocks(schema, i + 1)

\* line 464: cleaning and "No numeric-as-text" not in cleaning
AppendCleaning(c) == c.text # <<>> /\ ~HasNoNumericPhrase(c.text)

\* format_schema_for_llm, lines 439-467
format_schema_for_llm(db) ==
    IF get_schema_info(db) = <<>> THEN {<< Line("no_tables", <<>>, <<>>) >>}
    ELSE {TableBlocks(get_schema_info(db), 1)
            \o (IF AppendCleaning(c) THEN << Line("blank", <<>>, <<>>) >> \o c.text ELSE <<>>) :
          c \in get_cleaning_expressions(db)}


---------------------------------------------------------------------------
(* SpecDoc: the database holds the tables of one of the layouts, rows are  *)
(* stored in them, and the cleaning expressions and the schema document    *)
(* are asked for.                                                          *)

DataName == <<"d", "a", "t", "a">>
VentasName == <<"v", "e", "n", "t", "a", "s">>

\* the table names of the database, in creation order; a name can be given
\* to load_file_to_sqlite as it is (line 95), so it can hold any words
DocLayouts ==
    { <<>>, <<DataName>>, <<DataName, VentasName>>,
      <<NoNumericPhrase>>, <<DataName, NoNumericPhrase>> }

\* the texts a price cell is given: an amount, a range, and words
DocPrices == { <<"$", "5">>, <<"5", " ", "-", " ", "9">>, <<"a", "b", "c">> }

\* the most rows a table is given
MaxDocRows == 2

DocRow(price) == [price |-> Str(price), qty |-> Obj(<<"7">>)]

InitDoc ==
    /\ \E layout \in DocLayouts :
          docDb = [i \in 1..Len(layout) |-> [name |-> layout[i], rows |-> <<>>]]
    /\ cleaning = <<>>
    /\ doc = <<>>
    /\ docFound = <<>>
    /\ IdleIngest /\ IdleSummary /\ IdleRegistry /\ IdleQuery /\ IdleFlow

\* a row is stored in table t (df.to_sql)
StoreDocRow(t, price) ==
    /\ t \in 1..Len(docDb)
    /\ Len(docDb[t].rows) < MaxDocRows
    /\ docDb' = [docDb EXCEPT ![t].rows = Append(@, DocRow(price))]
    /\ cleaning' = <<>>
    /\ doc' = <<>>
    /\ docFound' = <<>>
    /\ UNCHANGED <<ingestVars, flowVars, summaryVars, registryVars, queryVars>>

\* get_cleaning_expressions()
GetCleaningExpressions ==
    /\ cleaning = <<>>
    /\ \E c \in get_cleaning_expressions(docDb) :
          /\ cleaning' = c.text
          /\ docFound' = c.entries
    /\ UNCHANGED <<docDb, doc, ingestVars, flowVars, summaryVars, registryVars, queryVars>>

\* format_schema_for_llm()
FormatSchema ==
    /\ doc = <<>>
    /\ doc' \in format_schema_for_llm(docDb)
    /\ UNCHANGED <<docDb, cleaning, docFound, ingestVars, flowVars, summaryVars, registryVars, queryVars>>

NextDoc ==
    \/ \E t \in 1..2 : \E price \in DocPrices : StoreDocRow(t, price)
    \/ GetCleaningExpressions
    \/ FormatSchema

SpecDoc == InitDoc /\ [][NextDoc]_vars

---------------------------------------------------------------------------
(* Claims about the schema document, checked under SpecDoc.                *)

\* a Numeric-Text Finding exists for a table of the database
FindingExists == DetectTables(docDb, 1) # {<<>>}

SectionLines == {i \in 1..Len(doc) : doc[i].kind = "section"}

TableBlockLines == {i \in 1..Len(doc) : doc[i].kind \in {"table", "rule", "column", "samples"}}

\* C13: the schema document has no cleaning-expressions section when no
\* finding exists for any table; when a finding exists it has the section
\* exactly once, after all the table blocks.
C13_SectionIffFinding ==
    doc # <<>> =>
        IF FindingExists
        THEN /\ Cardinality(SectionLines) = 1
             /\ \A i \in SectionLines : \A j \in TableBlockLines : j < i
        ELSE SectionLines = {}

\* the position of the heading line of the k-th finding in the text
EntryAt(k) ==
    CHOOSE p \in 1..Len(cleaning) :
        /\ cleaning[p].kind = "finding"
        /\ Cardinality({q \in 1..(p - 1) : cleaning[q].kind = "finding"}) = k - 1

IsLine(p, kind) == p <= Len(cleaning) /\ cleaning[p].kind = kind

IsExpr(p, e) == IsLine(p, "expr") /\ cleaning[p].x = SqlText(e)

\* the text names every finding, in order, with its formats and its
\* expression for the minimum
ListsFindings ==
    /\ Cardinality({p \in 1..Len(cleaning) : cleaning[p].kind = "finding"}) = Len(docFound)
    /\ \A k \in 1..Len(docFound) :
          LET p == EntryAt(k)
          IN /\ cleaning[p].x = docFound[k].column
             /\ cleaning[p].y = docFound[k].table
             /\ IsLine(p + 1, "formats")
             /\ cleaning[p + 1].x = docFound[k].formats_found
             /\ IsLine(p + 2, "min_label")
             /\ IsExpr(p + 3, docFound[k].expr_min)

\* the text ends with the two lines of the footer
EndsWithFooter ==
    /\ Len(cleaning) >= 2
    /\ cleaning[Len(cleaning) - 1].kind = "use_these"
    /\ cleaning[Len(cleaning)].kind = "never_plain"

\* C14 as stated: the section lists every finding with its formats and with
\* both the expression for the minimum and the expression for the maximum,
\* and ends with the footer.
C14_BothExpressionsListed ==
    docFound # <<>> =>
        /\ ListsFindings
        /\ \A k \in 1..Len(docFound) :
              /\ IsLine(EntryAt(k) + 4, "max_label")
              /\ IsExpr(EntryAt(k) + 5, docFound[k].expr_max)
        /\ EndsWithFooter

\* C14, amended: the section lists every finding with its formats and its
\* expression for the minimum, and with its expression for the maximum
\* exactly when that differs from the one for the minimum; it ends with the
\* footer.
C14_MaxListedWhenDifferent ==
    docFound # <<>> =>
        /\ ListsFindings
        /\ \A k \in 1..Len(docFound) :
              IF docFound[k].expr_max # docFound[k].expr_min
              THEN /\ IsLine(EntryAt(k) + 4, "max_label")
                   /\ IsExpr(EntryAt(k) + 5, docFound[k].expr_max)
              ELSE ~IsLine(EntryAt(k) + 4, "max_label")
        /\ EndsWithFooter

\* two findings, the first with one expression and the second with two
C14_Witness ==
    /\ Len(docFound) = 2
    /\ docFound[1].expr_max = docFound[1].expr_min
    /\ docFound[2].expr_max # docFound[2].expr_min
    /\ Cardinality({p \in 1..Len(cleaning) : cleaning[p].kind = "max_label"}) = 1

---------------------------------------------------------------------------
(* The backend registry and the handles it creates.  A handle is the       *)
(* record of a backend instance's fields; its id is its position in        *)
(* handles, the order of creation.  The SQLite databases are files that    *)
(* outlive the handles: files gives the tables each of them holds.         *)

\* _backend: Optional[Backend] = None
NoBackend == 0

\* SQLiteBackend.__init__, sqlite_backend.py lines 22-25
SQLiteBackend(db_name) ==
    [type |-> "sqlite", store |-> db_name, file_loaded |-> FALSE, table_name |-> ""]

\* BigQueryBackend.__init__, bigquery_backend.py lines 17-26
BigQueryBackend(dataset_id) ==
    [type |-> "bigquery", store |-> dataset_id, file_loaded |-> FALSE, table_name |-> ""]

\* a registry that keeps the backend it has when one is set
SetIfNone(current, new) == IF current = NoBackend THEN new ELSE current

\* cls._backend = ..., lines 44 and 56
set_backend(current, new) == new

\* the tables of the BigQuery dataset, which no handle loads
DatasetTables == {"orders"}

\* the table names a handle shows: get_schema_info, get_tables_list and
\* format_schema_for_llm of SQLiteBackend read the database file of db_name
\* (sqlite_backend.py lines 39-58), those of BigQueryBackend the dataset
TablesThrough(h) == IF h.type = "sqlite" THEN files[h.store] ELSE DatasetTables

---------------------------------------------------------------------------
(* SpecRegistry: backends are set and cleared, files are loaded through    *)
(* the active handle, and the schema is read through it.                   *)

DbNames == {"data.db", "otra.db"}

DatasetIds == {"ventas_ds"}

LoadedTables == {"a", "b"}

\* the most registry calls made
MaxCalls == 4

NoSeen == [called |-> FALSE, handle |-> NoBackend, tables |-> {}]

InitRegistry ==
    /\ backend = NoBackend
    /\ handles = <<>>
    /\ files = [d \in DbNames |-> {}]
    /\ calls = <<>>
    /\ loadedBy = <<>>
    /\ seen = NoSeen
    /\ IdleIngest /\ IdleSummary /\ IdleDoc /\ IdleQuery /\ IdleFlow

\* BackendRegistry.set_sqlite_backend(db_name)
SetSqliteBackend(db_name) ==
    /\ Len(calls) < MaxCalls
    /\ handles' = Append(handles, SQLiteBackend(db_name))
    /\ backend' = set_backend(backend, Len(handles) + 1)
    /\ calls' = Append(calls, [op |-> "set_sqlite_backend", arg |-> db_name])
    /\ loadedBy' = Append(loadedBy, {})
    /\ seen' = NoSeen
    /\ UNCHANGED <<files, ingestVars, flowVars, summaryVars, docVars, queryVars>>

\* BackendRegistry.set_bigquery_backend(credentials, project_id, dataset_id)
SetBigQueryBackend(dataset_id) ==
    /\ Len(calls) < MaxCalls
    /\ handles' = Append(handles, BigQueryBackend(dataset_id))
    /\ backend' = set_backend(backend, Len(handles) + 1)
    /\ calls' = Append(calls, [op |-> "set_bigquery_backend", arg |-> dataset_id])
    /\ loadedBy' = Append(loadedBy, {})
    /\ seen' = NoSeen
    /\ UNCHANGED <<files, ingestVars, flowVars, summaryVars, docVars, queryVars>>

\* BackendRegistry.clear()
ClearBackend ==
    /\ Len(calls) < MaxCalls
    /\ backend' = NoBackend
    /\ calls' = Append(calls, [op |-> "clear", arg |-> ""])
    /\ seen' = NoSeen
    /\ UNCHANGED <<handles, files, loadedBy, ingestVars, flowVars, summaryVars, docVars, queryVars>>

\* get_backend().load_file(path) of a SQLite handle, the file holding table t:
\* sqlite_backend.py lines 27-33, and df.to_sql into the file of db_name
LoadFile(t) ==
    /\ backend # NoBackend
    /\ handles[backend].type = "sqlite"
    /\ t \notin loadedBy[backend]
    /\ files' = [files EXCEPT ![handles[backend].store] = @ \cup {t}]
    /\ handles' = [handles EXCEPT ![backend].file_loaded = TRUE, ![backend].table_name = t]
    /\ loadedBy' = [loadedBy EXCEPT ![backend] = @ \cup {t}]
    /\ seen' = NoSeen
    /\ UNCHANGED <<backend, calls, ingestVars, flowVars, summaryVars, docVars, queryVars>>

\* get_backend().get_schema_info()
ReadSchema ==
    /\ backend # NoBackend
    /\ ~seen.called
    /\ seen' = [called |-> TRUE, handle |-> backend, tables |-> TablesThrough(handles[backend])]
    /\ UNCHANGED <<backend, handles, files, calls, loadedBy,
                   ingestVars, flowVars, summaryVars, docVars, queryVars>>

NextRegistry ==
    \/ \E d \in DbNames : SetSqliteBackend(d)
    \/ \E d \in DatasetIds : SetBigQueryBackend(d)
    \/ ClearBackend
    \/ \E t \in LoadedTables : LoadFile(t)
    \/ ReadSchema

SpecRegistry == InitRegistry /\ [][NextRegistry]_vars

---------------------------------------------------------------------------
(* Claims about the registry, checked under SpecRegistry.                  *)

\* the number of instances the calls so far created
CreatedBy(cs) == Cardinality({i \in 1..Len(cs) : cs[i].op # "clear"})

\* C15: after any sequence of set_sqlite_backend, set_bigquery_backend and
\* clear calls, get_backend returns None when there was no call or the last
\* call was clear, and otherwise exactly the instance the last set call
\* created, which is of the kind and for the store that call named.
C15_LastSetOrNone ==
    IF calls = <<>> \/ calls[Len(calls)].op = "clear"
    THEN backend = NoBackend
    ELSE /\ backend = CreatedBy(calls)
         /\ handles[backend].store = calls[Len(calls)].arg
         /\ handles[backend].type =
               (IF calls[Len(calls)].op = "set_sqlite_backend" THEN "sqlite" ELSE "bigquery")

\* a SQLite backend with a loaded file is replaced by a BigQuery backend
C15_Witness ==
    /\ Len(calls) = 2
    /\ calls[1].op = "set_sqlite_backend"
    /\ calls[2].op = "set_bigquery_backend"
    /\ handles[1].file_loaded
    /\ backend = 2

\* the tables loaded through handles other than h
LoadedThroughOthers(h) ==
    UNION {loadedBy[k] : k \in (1..Len(loadedBy)) \ {h}}

\* C16: a handle through which nothing was loaded is not loaded, and the
\* schema read through the active handle shows no table that was loaded
\* through another handle and not through this one.
C16_NothingCarriedOver ==
    /\ \A h \in 1..Len(handles) : loadedBy[h] = {} => ~handles[h].file_loaded
    /\ seen.called =>
          seen.tables \cap LoadedThroughOthers(seen.handle) \subseteq loadedBy[seen.handle]


---------------------------------------------------------------------------
(* Queries and introspection against the stores.  The SQLite database is   *)
(* [file, tables]: the file is "missing" or "db", and the tables are       *)
(* [name, rows] in creation order, each with one TEXT column.  A database  *)
(* name can also lead to a path that exists and is no file to open: the    *)
(* name "" gives the databases directory itself (line 74).                 *)

\* os.path.join(DB_DIR, db_name): what is at the path
PathKind(db, db_name) == IF db_name = "" THEN "dir" ELSE db.file

\* a test that lets every call go on to sqlite3.connect
AlwaysExists(kind) == TRUE

\* os.path.exists(db_path), lines 139, 192, 244 and 293
path_exists(kind) == kind # "missing"

\* sqlite3.connect(db_path) fails on a path that is no file to open
ConnectFails(kind) == kind = "dir"

\* sqlite3.connect(db_path) creates the file when there is none
Connected(db) == IF db.file = "missing" THEN [file |-> "db", tables |-> <<>>] ELSE db

\* a statement the introspection code issues: its verb, the table it names
\* and the quote character it puts around the name
Stmt(verb, table, quote) == [verb |-> verb, table |-> table, quote |-> quote]

\* the statement is no valid SQL when the name holds the quote character
StmtFails(s) == s.quote \in Range(s.table)

\* SELECT name FROM sqlite_master WHERE type='table'
MasterStmt == Stmt("SELECT", <<"s", "q", "l", "i", "t", "e", "_", "m", "a", "s", "t", "e", "r">>, "")

\* get_schema_info, lines 203-211: the statements for one table
SchemaStatements(t) ==
    << Stmt("PRAGMA", t.name, "'"), Stmt("SELECT", t.name, "'"), Stmt("SELECT", t.name, "'") >>

\* get_column_summary, lines 152-174: the statements for one table
SummaryStatements(t) ==
    << Stmt("PRAGMA", t.name, "'"), Stmt("SELECT", t.name, "\"") >>
    \o (IF t.rows # <<>>
        THEN << Stmt("SELECT", t.name, "\""), Stmt("SELECT", t.name, "\"") >>
        ELSE <<>>)

\* _detect_numeric_text_columns, lines 305-317: the statements for one table
DetectStatements(t) ==
    << Stmt("PRAGMA", t.name, "'"), Stmt("SELECT", t.name, "\"") >>

StatementsOf(op, t) ==
    CASE op \in {"get_schema_info", "get_tables_list"} -> SchemaStatements(t)
      [] op = "get_column_summary" -> SummaryStatements(t)
      [] op = "detect" -> DetectStatements(t)

\* the statements of a whole call, in order
AllStatements(op, tables) ==
    << MasterStmt >> \o Flatten([i \in 1..Len(tables) |-> StatementsOf(op, tables[i])])

\* the position of the first statement that fails, Len + 1 when none does
FirstFailure(stmts) ==
    IF \E i \in 1..Len(stmts) : StmtFails(stmts[i])
    THEN CHOOSE i \in 1..Len(stmts) :
            StmtFails(stmts[i]) /\ \A k \in 1..(i - 1) : ~StmtFails(stmts[k])
    ELSE Len(stmts) + 1

TableNames(tables) == [i \in 1..Len(tables) |-> tables[i].name]

Returned(result, log, db) == [outcome |-> "returned", result |-> result, log |-> log, db |-> db]

Raised(log, db) == [outcome |-> "raised", result |-> <<>>, log |-> log, db |-> db]

\* get_schema_info, get_column_summary and _detect_numeric_text_columns of
\* db_manager: the early return, the connection, and the statements inside
\* try ... finally, which has no except clause
Introspect(op, db, db_name) ==
    LET kind == PathKind(db, db_name)
    IN IF ~path_exists(kind) THEN Returned(<<>>, <<>>, db)
       ELSE IF ConnectFails(kind) THEN Raised(<<>>, db)
       ELSE LET now == Connected(db)
                stmts == AllStatements(op, now.tables)
                f == FirstFailure(stmts)
            IN IF f <= Len(stmts) THEN Raised(SubSeq(stmts, 1, f), now)
               ELSE Returned(TableNames(now.tables), stmts, now)

\* format_schema_for_llm, lines 442-465: get_schema_info, and for a schema
\* that is not empty the classifier
FormatIntrospect(db, db_name) ==
    LET s == Introspect("get_schema_info", db, db_name)
    IN IF s.outcome = "raised" \/ s.result = <<>> THEN s
       ELSE LET c == Introspect("detect", s.db, db_name)
            IN IF c.outcome = "raised" THEN Raised(s.log \o c.log, c.db)
               ELSE Returned(s.result, s.log \o c.log, c.db)


\* str.upper, one character
ToUpper(c) ==
    IF c \in Range(LowerLetters)
    THEN UpperLetters[CHOOSE i \in 1..26 : LowerLetters[i] = c]
    ELSE c

UpperStr(s) == [i \in 1..Len(s) |-> ToUpper(s[i])]

\* the keywords execute_sql refuses, agents.py line 70
BlockedKeywords ==
    { <<"I", "N", "S", "E", "R", "T">>, <<"U", "P", "D", "A", "T", "E">>, <<"D", "E", "L", "E", "T", "E">>, <<"D", "R", "O", "P">>, <<"A", "L", "T", "E", "R">>, <<"C", "R", "E", "A", "T", "E">> }

\* agents.py lines 69-70: query.strip().upper() starts with a refused keyword
Blocked(text) ==
    \E kw \in BlockedKeywords : MatchAt(UpperStr(PyStrip(text)), 1, kw)

\* what SQLite makes of a query text: the kind of statement and its table
Parsed(kind, table) == [kind |-> kind, table |-> table]

Query(text, stmt) == [text |-> text, stmt |-> stmt]

HasTable(db, name) == \E i \in 1..Len(db.tables) : db.tables[i].name = name

TableAt(db, name) == CHOOSE i \in 1..Len(db.tables) : db.tables[i].name = name

Drop(tables, i) == [k \in 1..(Len(tables) - 1) |-> IF k < i THEN tables[k] ELSE tables[k + 1]]

\* cursor.execute(query) on an open database: the error if there is one,
\* whether the statement has a result set (cursor.description), and the
\* database the statement leaves once it is committed
Exec(db, stmt) ==
    CASE stmt.kind \in {"syntax", "multi"} ->
           [error |-> stmt.kind, described |-> FALSE, rows |-> <<>>, db |-> db]
      [] stmt.kind \notin {"syntax", "multi"} /\ ~HasTable(db, stmt.table) ->
           [error |-> "no such table", described |-> FALSE, rows |-> <<>>, db |-> db]
      [] stmt.kind = "select" /\ HasTable(db, stmt.table) ->
           [error |-> "", described |-> TRUE,
            rows |-> db.tables[TableAt(db, stmt.table)].rows, db |-> db]
      [] stmt.kind = "delete" /\ HasTable(db, stmt.table) ->
           [error |-> "", described |-> FALSE, rows |-> <<>>,
            db |-> [db EXCEPT !.tables[TableAt(db, stmt.table)].rows = <<>>]]
      [] stmt.kind = "insert" /\ HasTable(db, stmt.table) ->
           [error |-> "", described |-> FALSE, rows |-> <<>>,
            db |-> [db EXCEPT !.tables[TableAt(db, stmt.table)].rows = Append(@, <<"9">>)]]
      [] stmt.kind = "drop" /\ HasTable(db, stmt.table) ->
           [error |-> "", described |-> FALSE, rows |-> <<>>,
            db |-> [db EXCEPT !.tables = Drop(@, TableAt(db, stmt.table))]]

\* the dict run_query returns for a result set or for an error: its keys, and
\* the values of success, error, rows and row_count
QueryResult(success, error, rows) ==
    [keys |-> IF success THEN {"success", "columns", "rows", "row_count"}
              ELSE {"success", "error"},
     success |-> success, error |-> error, rows |-> rows, row_count |-> Len(rows)]

\* {"success": True, "message": "Query executed (no results)."}, line 262
MessageResult ==
    [keys |-> {"success", "message"},
     success |-> TRUE, error |-> "", rows |-> <<>>, row_count |-> 0]

\* run_query of db_manager, lines 241-266: the connection is opened before
\* the try block; the except clause turns every error of execute into a
\* result, and a statement without a result set is committed
run_query(db, query, db_name) ==
    LET kind == PathKind(db, db_name)
    IN IF ~path_exists(kind)
       THEN Returned(QueryResult(FALSE, "Database not found.", <<>>), <<>>, db)
       ELSE IF ConnectFails(kind) THEN Raised(<<>>, db)
       ELSE LET now == Connected(db)
                e == Exec(now, query.stmt)
            IN IF e.error # "" THEN Returned(QueryResult(FALSE, e.error, <<>>), <<>>, now)
               ELSE IF e.described THEN Returned(QueryResult(TRUE, "", e.rows), <<>>, now)
               ELSE Returned(MessageResult, <<>>, e.db)

OnlySelect == "Only SELECT queries are allowed."

\* execute_sql, agents.py lines 63-83
execute_sql(db, query) ==
    IF Blocked(query.text)
    THEN Returned(QueryResult(FALSE, OnlySelect, <<>>), <<>>, db)
    ELSE run_query(db, query, "data.db")

\* BigQueryBackend.run_query, lines 44-71: everything is inside try, and
\* the remote call answers or fails
bq_run_query(query, fails) ==
    IF fails THEN QueryResult(FALSE, "remote error", <<>>) ELSE QueryResult(TRUE, "", <<>>)

\* the tables of the BigQuery dataset
BqTables == << <<"o", "r", "d", "e", "r", "s">>, <<"c", "l", "i", "e", "n", "t", "s">> >>

\* what the remote calls of one BigQuery operation do: whether list_tables
\* fails, and the tables whose get_table and whose fill query fail
BqFailures == [list : BOOLEAN, table : SUBSET (1..Len(BqTables)), fill : SUBSET (1..Len(BqTables))]

Keep(names, drop) == SelectSeq(names, LAMBDA n : \A i \in drop : BqTables[i] # n)

\* the tables the BigQuery operations return: get_schema_info (lines 73-104)
\* and format_schema_for_llm skip a table whose get_table fails,
\* get_column_summary (lines 174-216) also one whose fill query fails, and
\* get_tables_list (lines 218-242) keeps every table
bq_introspect(op, env) ==
    IF env.list THEN <<>>
    ELSE CASE op \in {"get_schema_info", "format_schema_for_llm"} -> Keep(BqTables, env.table)
           [] op = "get_column_summary" -> Keep(BqTables, env.table \cup env.fill)
           [] op = "get_tables_list" -> BqTables

\* the remote calls a BigQuery operation makes
BqStatements(op) ==
    << Stmt("list_tables", <<>>, "") >>
    \o Flatten([i \in 1..Len(BqTables) |->
          << Stmt("get_table", BqTables[i], "BACKTICK") >>
          \o (IF op = "get_tables_list" THEN <<>> ELSE << Stmt("SELECT", BqTables[i], "BACKTICK") >>)])


---------------------------------------------------------------------------
(* SpecQuery: tables are loaded into the SQLite database, queries are run  *)
(* through run_query and through the execute_sql tool, and the stores are  *)
(* described through the introspection functions of both backends.         *)

\* a table name with an apostrophe, as load_file_to_sqlite takes it from a
\* file name or from its table_name argument (lines 95-102)
QuoteName == <<"i", "t", "'", "s">>

QueryTables == {DataName, QuoteName}

\* the database names of the calls: the default, and the empty name
QueryDbNames == {"data.db", ""}

QueryPool ==
    { Query(<<"S", "E", "L", "E", "C", "T", " ", "*", " ", "F", "R", "O", "M", " ", "d", "a", "t", "a">>, Parsed("select", DataName)),
      Query(<<"S", "E", "L", "E", "C", "T", " ", "*", " ", "F", "R", "O", "M", " ", "n", "a", "d", "a">>, Parsed("select", <<"n", "a", "d", "a">>)),
      Query(<<"S", "E", "L", "E", "C">>, Parsed("syntax", <<>>)),
      Query(<<"D", "E", "L", "E", "T", "E", " ", "F", "R", "O", "M", " ", "d", "a", "t", "a">>, Parsed("delete", DataName)),
      Query(<<" ", "d", "e", "l", "e", "t", "e", " ", "f", "r", "o", "m", " ", "d", "a", "t", "a">>, Parsed("delete", DataName)),
      Query(<<"D", "R", "O", "P", " ", "T", "A", "B", "L", "E", " ", "d", "a", "t", "a">>, Parsed("drop", DataName)),
      Query(<<"I", "N", "S", "E", "R", "T", " ", "I", "N", "T", "O", " ", "d", "a", "t", "a", " ", "V", "A", "L", "U", "E", "S", "(", "'", "9", "'", ")">>, Parsed("insert", DataName)),
      Query(<<"R", "E", "P", "L", "A", "C", "E", " ", "I", "N", "T", "O", " ", "d", "a", "t", "a", " ", "V", "A", "L", "U", "E", "S", "(", "'", "9", "'", ")">>, Parsed("insert", DataName)),
      Query(<<"/", "*", " ", "*", "/", " ", "D", "E", "L", "E", "T", "E", " ", "F", "R", "O", "M", " ", "d", "a", "t", "a">>, Parsed("delete", DataName)),
      Query(<<"S", "E", "L", "E", "C", "T", " ", "1", ";", " ", "D", "R", "O", "P", " ", "T", "A", "B", "L", "E", " ", "d", "a", "t", "a">>, Parsed("multi", <<>>)) }

\* the most rows a table comes to hold
MaxStoredRows == 2

\* the statement does not take the table past MaxStoredRows
Room(db, query) ==
    (query.stmt.kind = "insert" /\ HasTable(db, query.stmt.table))
        => Len(db.tables[TableAt(db, query.stmt.table)].rows) < MaxStoredRows

\* SQLiteBackend.get_tables_list is get_schema_info with fewer fields
SqliteOps == {"get_schema_info", "get_column_summary", "get_tables_list", "detect"}

BqOps == {"get_schema_info", "get_column_summary", "format_schema_for_llm", "get_tables_list"}

Call(op, backend_type, r, query) ==
    [op |-> op, backend |-> backend_type, outcome |-> r.outcome, result |-> r.result,
     log |-> r.log, query |-> query]

NoCall == Call("none", "", Returned(<<>>, <<>>, <<>>), <<>>)

InitQuery ==
    /\ qdb = [file |-> "missing", tables |-> <<>>]
    /\ qBefore = qdb
    /\ qOut = NoCall
    /\ IdleIngest /\ IdleSummary /\ IdleDoc /\ IdleRegistry /\ IdleFlow

\* df.to_sql(table_name, conn, if_exists="replace"), line 116: the file is
\* created if need be, and the table is created or replaced
Loaded(db, name) ==
    LET now == Connected(db)
        fresh == [name |-> name, rows |-> << <<"5">> >>]
    IN IF HasTable(now, name)
       THEN [now EXCEPT !.tables[TableAt(now, name)] = fresh]
       ELSE [now EXCEPT !.tables = Append(@, fresh)]

\* load_file_to_sqlite(path, table_name)
LoadTable(name) ==
    /\ qdb' = Loaded(qdb, name)
    /\ qBefore' = qdb
    /\ qOut' = Call("load_file_to_sqlite", "sqlite", Returned(<<>>, <<>>, <<>>), <<>>)
    /\ UNCHANGED <<ingestVars, flowVars, summaryVars, docVars, registryVars>>

\* run_query(query, db_name) of db_manager
RunQuery(query, db_name) ==
    /\ Room(qdb, query)
    /\ LET r == run_query(qdb, query, db_name)
       IN /\ qdb' = r.db
          /\ qOut' = Call("run_query", "sqlite", r, query)
    /\ qBefore' = qdb
    /\ UNCHANGED <<ingestVars, flowVars, summaryVars, docVars, registryVars>>

\* BigQueryBackend.run_query(query)
BqRunQuery(query, fails) ==
    /\ qOut' = Call("run_query", "bigquery", Returned(bq_run_query(query, fails), <<>>, qdb), query)
    /\ qBefore' = qdb
    /\ UNCHANGED <<qdb, ingestVars, flowVars, summaryVars, docVars, registryVars>>

\* the execute_sql tool
ExecuteSql(query) ==
    /\ Room(qdb, query)
    /\ LET r == execute_sql(qdb, query)
       IN /\ qdb' = r.db
          /\ qOut' = Call("execute_sql", "sqlite", r, query)
    /\ qBefore' = qdb
    /\ UNCHANGED <<ingestVars, flowVars, summaryVars, docVars, registryVars>>

\* get_schema_info, get_column_summary, _detect_numeric_text_columns of db_manager
IntrospectSqlite(op, db_name) ==
    /\ LET r == Introspect(op, qdb, db_name)
       IN /\ qdb' = r.db
          /\ qOut' = Call(op, "sqlite", r, <<>>)
    /\ qBefore' = qdb
    /\ UNCHANGED <<ingestVars, flowVars, summaryVars, docVars, registryVars>>

\* format_schema_for_llm of db_manager
FormatSchemaSqlite(db_name) ==
    /\ LET r == FormatIntrospect(qdb, db_name)
       IN /\ qdb' = r.db
          /\ qOut' = Call("format_schema_for_llm", "sqlite", r, <<>>)
    /\ qBefore' = qdb
    /\ UNCHANGED <<ingestVars, flowVars, summaryVars, docVars, registryVars>>

\* get_schema_info, get_column_summary, format_schema_for_llm and
\* get_tables_list of BigQueryBackend
IntrospectBigQuery(op, env) ==
    /\ qOut' = Call(op, "bigquery", Returned(bq_introspect(op, env), BqStatements(op), qdb), <<>>)
    /\ qBefore' = qdb
    /\ UNCHANGED <<qdb, ingestVars, flowVars, summaryVars, docVars, registryVars>>

NextQuery ==
    \/ \E name \in QueryTables : LoadTable(name)
    \/ \E q \in QueryPool : \E d \in QueryDbNames : RunQuery(q, d)
    \/ \E q \in QueryPool : \E fails \in BOOLEAN : BqRunQuery(q, fails)
    \/ \E q \in QueryPool : ExecuteSql(q)
    \/ \E op \in SqliteOps : \E d \in QueryDbNames : IntrospectSqlite(op, d)
    \/ \E d \in QueryDbNames : FormatSchemaSqlite(d)
    \/ \E op \in BqOps : \E env \in BqFailures : IntrospectBigQuery(op, env)

SpecQuery == InitQuery /\ [][NextQuery]_vars


---------------------------------------------------------------------------
(* Claims about queries and introspection                                  *)

QueryOps == {"run_query"}

IntrospectionOps == SqliteOps \cup BqOps

\* the tables of the store whose statements are all valid
Describable(op, db) ==
    SelectSeq(TableNames(db.tables),
              LAMBDA n : \A i \in 1..Len(db.tables) :
                  db.tables[i].name = n =>
                      \A k \in 1..Len(StatementsOf(op, db.tables[i])) :
                          ~StmtFails(StatementsOf(op, db.tables[i])[k]))

\* C17: run_query on either backend never raises: every call returns a
\* result, and a result that reports a failure carries an error message.
C17_RunQueryNeverRaises ==
    qOut.op \in QueryOps =>
        /\ qOut.outcome = "returned"
        /\ (~qOut.result.success => qOut.result.error # "")

\* C18: the introspection functions of both backends and the classifier
\* never raise: every call returns, and a SQLite call on an existing database
\* returns every table whose statements do not fail.
C18_IntrospectionNeverRaises ==
    qOut.op \in IntrospectionOps =>
        /\ qOut.outcome = "returned"
        /\ (qOut.backend = "sqlite" /\ qOut.op \in SqliteOps /\ qOut.log # <<>>)
              => qOut.result = Describable(qOut.op, qdb)

ReadVerbs == {"SELECT", "PRAGMA", "list_tables", "get_table"}

\* C19: classification, schema description and column summary issue only
\* SELECT, PRAGMA and metadata statements, and the store is after the call
\* what it was before it, whether the call returns or raises.
C19_ReadOnlyIntrospection ==
    qOut.op \in IntrospectionOps =>
        /\ qdb = qBefore
        /\ \A i \in 1..Len(qOut.log) : qOut.log[i].verb \in ReadVerbs

\* C19: the schema of a loaded table has been described, and the classifier
\* has read the table
C19_Witness ==
    /\ qOut.op = "format_schema_for_llm"
    /\ qOut.backend = "sqlite"
    /\ qOut.outcome = "returned"
    /\ qOut.result = << DataName >>
    /\ \E i \in 1..Len(qOut.log) : qOut.log[i].verb = "PRAGMA"
    /\ HasTable(qdb, DataName)
    /\ qdb.tables[TableAt(qdb, DataName)].rows # <<>>

\* C20: the execute_sql tool is read-only: no call changes the database, and
\* a statement on an existing table that is not a SELECT is refused with
\* 'Only SELECT queries are allowed.'.
C20_ExecuteSqlReadOnly ==
    qOut.op = "execute_sql" =>
        /\ qdb = qBefore
        /\ (qOut.query.stmt.kind \in {"insert", "delete", "drop"}
                /\ HasTable(qBefore, qOut.query.stmt.table))
              => (~qOut.result.success /\ qOut.result.error = OnlySelect)


---------------------------------------------------------------------------
(* Further claims about the classifier, checked under SpecClassify.        *)

\* the values of a column that satisfy _looks_numeric
Qualifying(dv) == {v \in dv : looks_numeric(v)}

\* C23: the formats and expressions of a finding are those the qualifying
\* values of the column give by themselves: a value that fails looks_numeric
\* adds no prefix, symbol or range flag.
C23_OnlyQualifyingValuesCount ==
    classified =>
        \A col \in Range(ColumnOrder) : \A i \in FindingsOf(col) :
            LET q == Qualifying(DistinctVals(cols[col].vals))
            IN \E o \in PrefixOrders(prefixes_found(q)) :
                  findings[i] = Finding(col, q, o)

\* the separators the INSTR calls of an expression look for
RECURSIVE InstrSeps(_)
InstrSeps(e) ==
    (IF e.op = "INSTR" THEN {e.args[2].text} ELSE {})
    \cup UNION {InstrSeps(e.args[k]) : k \in 1..Len(e.args)}

\* C24: when some value of the column holds " - " and another value holds a
\* tight range, both range styles are in formats_found and both expressions
\* split at " - " only; when no value holds " - " and some value holds a tight
\* range, the expressions split at "-".
C24_SpacedSeparatorPreferred ==
    classified =>
        \A col \in Range(ColumnOrder) : \A i \in FindingsOf(col) :
            LET dv == DistinctVals(cols[col].vals)
                spaced == \E v \in dv : Contains(v, SpacedSep)
                tight == \E v \in dv : ~Contains(v, SpacedSep) /\ TightRange(v)
                tags == Range(findings[i].formats_found)
            IN /\ (spaced /\ tight) =>
                    /\ {"range_spaced", "range_nospace"} \subseteq tags
                    /\ InstrSeps(findings[i].expr_min) = {SpacedSep}
                    /\ InstrSeps(findings[i].expr_max) = {SpacedSep}
               /\ (~spaced /\ tight) =>
                    /\ InstrSeps(findings[i].expr_min) = {TightSep}
                    /\ InstrSeps(findings[i].expr_max) = {TightSep}

\* C24: a column with "100-200" and "$500 - $900" has been classified, and on
\* "$500 - $900" the expressions of its finding give 500 and 900
C24_Witness ==
    /\ classified
    /\ {Render(Desc(<<>>, <<>>, 100, TightSep, 200, FALSE)),
        Render(Desc(<<>>, <<"$">>, 500, SpacedSep, 900, TRUE))} \subseteq cols["price"].vals
    /\ \E i \in FindingsOf("price") :
          /\ InstrSeps(findings[i].expr_min) = {SpacedSep}
          /\ Eval(findings[i].expr_min, Render(Desc(<<>>, <<"$">>, 500, SpacedSep, 900, TRUE))) = Real(500, 0)
          /\ Eval(findings[i].expr_max, Render(Desc(<<>>, <<"$">>, 500, SpacedSep, 900, TRUE))) = Real(900, 0)


---------------------------------------------------------------------------
(* Further claims about the normalizer                                     *)

\* the days of a month of the Gregorian calendar
DaysIn(month, year) ==
    IF month = 2
    THEN (IF year % 4 = 0 /\ (year % 100 # 0 \/ year % 400 = 0) THEN 29 ELSE 28)
    ELSE IF month \in {4, 6, 9, 11} THEN 30 ELSE 31

\* the fields of a text 'YYYY-MM-DD HH:MM:00'
IsoYear(t)   == DigitsValue(t, 1, 5)
IsoMonth(t)  == DigitsValue(t, 6, 8)
IsoDay(t)    == DigitsValue(t, 9, 11)
IsoHour(t)   == DigitsValue(t, 12, 14)
IsoMinute(t) == DigitsValue(t, 15, 17)

\* C29: whenever _parse_spanish_date returns a value, the value denotes a
\* valid timestamp: month 1..12, a day of that month, hour 0..23, minute 0..59.
\* Checked under SpecParse.
C29_ValidTimestamp ==
    (parsePc = "done" /\ dateOut.kind = "str") =>
        /\ Len(dateOut.text) = 19
        /\ IsoMonth(dateOut.text) \in 1..12
        /\ IsoDay(dateOut.text) \in 1..DaysIn(IsoMonth(dateOut.text), IsoYear(dateOut.text))
        /\ IsoHour(dateOut.text) \in 0..23
        /\ IsoMinute(dateOut.text) \in 0..59

\* C30: the normalizer applied to a frame it has normalized leaves every value
\* of every column as it was.  Checked under SpecConvert.
C30_Idempotent ==
    convPc = "again" => df = dfIn

\* C30: the first application rewrote column fecha, whose first cell now
\* holds an ISO text, and the second application has been made
C30_Witness ==
    /\ convPc = "again"
    /\ Len(dfIn["fecha"].vals) >= 10
    /\ dfIn["fecha"].vals[1] = Str(ExpectedIso(DateA))
    /\ \E i \in 1..Len(dfIn["fecha"].vals) : dfIn["fecha"].vals[i] = Null
    /\ df["fecha"].vals[1] = Str(ExpectedIso(DateA))


---------------------------------------------------------------------------
(* Further claims about run_query, checked under SpecQuery.                *)

\* C25: every result of run_query with success true carries columns, rows and
\* row_count, and row_count is the number of rows returned, on both backends.
C25_SuccessCarriesRows ==
    (qOut.op = "run_query" /\ qOut.outcome = "returned" /\ qOut.result.success) =>
        /\ {"columns", "rows", "row_count"} \subseteq qOut.result.keys
        /\ qOut.result.row_count = Len(qOut.result.rows)


---------------------------------------------------------------------------
(* load_file_to_sqlite and SQLiteBackend.load_file                         *)

\* os.path.splitext(name): the position of the dot the extension begins at,
\* 0 when the name has none (a dot that begins the name begins no extension)
ExtAt(name) ==
    IF \E i \in 2..Len(name) : name[i] = "."
    THEN CHOOSE i \in 2..Len(name) : name[i] = "." /\ \A k \in (i + 1)..Len(name) : name[k] # "."
    ELSE 0

\* os.path.splitext(file_path)[1].lower(), line 86
file_ext(name) == IF ExtAt(name) = 0 THEN <<>> ELSE LowerStr(SubSeq(name, ExtAt(name), Len(name)))

\* os.path.splitext(os.path.basename(file_path))[0]
file_stem(name) == IF ExtAt(name) = 0 THEN name ELSE SubSeq(name, 1, ExtAt(name) - 1)

\* a test of the extension that takes every file for a CSV file
AnyExtension(ext) == TRUE

\* lines 88-93: the extensions that are read
Supported(ext) == ext \in {<<".", "c", "s", "v">>, <<".", "x", "l", "s">>, <<".", "x", "l", "s", "x">>}

\* str.replace(c, "_") for each character c of cs
Underscored(s, chars) == [i \in 1..Len(s) |-> IF s[i] \in chars THEN "_" ELSE s[i]]

\* lines 95-102: the table name taken from the file name
default_table_name(name) == Underscored(LowerStr(file_stem(name)), {" ", "-", "."})

\* lines 105-108: col.strip().lower().replace(" ", "_").replace("-", "_")
sanitize_column(col) == Underscored(LowerStr(PyStrip(col)), {" ", "-"})

\* a written table: its name, its columns and, column by column, its cells
Table(name, columns, cells) == [name |-> name, columns |-> columns, cells |-> cells]

\* len(df)
RowCount(cells) == IF cells = <<>> THEN 0 ELSE Len(cells[1].vals)

TablePos(tables, name) == CHOOSE i \in 1..Len(tables) : tables[i].name = name

\* a to_sql that adds the rows to those the table holds (if_exists="append")
to_sql_append(tables, t) ==
    IF \E i \in 1..Len(tables) : tables[i].name = t.name
    THEN [tables EXCEPT ![TablePos(tables, t.name)].cells =
             [k \in 1..Len(@) |-> [@[k] EXCEPT !.vals = @ \o t.cells[k].vals]]]
    ELSE Append(tables, t)

\* df.to_sql(table_name, conn, if_exists="replace", index=False), line 116:
\* a table of that name is dropped and the table is created from the frame
to_sql(tables, t) ==
    IF \E i \in 1..Len(tables) : tables[i].name = t.name
    THEN Append(SelectSeq(tables, LAMBDA x : x.name # t.name), t)
    ELSE Append(tables, t)

\* the dicts load_file_to_sqlite returns
LoadFailure(error) ==
    [success |-> FALSE, error |-> error, table_name |-> <<>>, columns |-> <<>>, row_count |-> 0]

LoadSuccess(t) ==
    [success |-> TRUE, error |-> <<>>, table_name |-> t.name, columns |-> t.columns,
     row_count |-> RowCount(t.cells)]

\* no table_name argument
NoName == <<>>

\* load_file_to_sqlite(file_path, table_name), lines 77-128: the result and
\* the tables of the database after the call
load_file_to_sqlite(tables, file, table_name) ==
    IF ~Supported(file_ext(file.name))
    THEN [result |-> LoadFailure(<<"U", "n", "s", "u", "p", "p", "o", "r", "t", "e", "d", " ", "f", "i", "l", "e", " ", "t", "y", "p", "e", ":", " ">> \o file_ext(file.name)),
          tables |-> tables]
    ELSE CHOOSE r \in
             { [result |-> LoadSuccess(t), tables |-> to_sql(tables, t)] :
                 t \in {Table(IF table_name = NoName THEN default_table_name(file.name) ELSE table_name,
                              [i \in 1..Len(file.columns) |-> sanitize_column(file.columns[i])],
                              convert_spanish_date_columns(file.cells))} } : TRUE

\* SQLiteBackend.__init__, lines 22-25
NewHandle == [file_loaded |-> FALSE, table_name |-> NoName]

\* SQLiteBackend.load_file, lines 30-32: the fields after the call
after_load(h, result) ==
    IF result.success THEN [file_loaded |-> TRUE, table_name |-> result.table_name] ELSE h

---------------------------------------------------------------------------
(* SpecLoad: files are loaded into the database, through the backend       *)
(* instance and through the ingest_file tool.                              *)

File(name, columns, cells) == [name |-> name, columns |-> columns, cells |-> cells]

TextColumn(vals) == [dtype |-> "object", vals |-> vals]

LoadFiles ==
    { File(<<"v", "e", "n", "t", "a", "s", ".", "c", "s", "v">>, << <<"P", "r", "e", "c", "i", "o", " ">> >>, << TextColumn(<<Str(<<"5">>), Str(<<"7">>)>>) >>),
      File(<<"V", "e", "n", "t", "a", "s", ".", "C", "S", "V">>, << <<"F", "e", "c", "h", "a">>, <<"U", "n", "i", "t", " ", "P", "r", "i", "c", "e">> >>,
           << TextColumn(<<Str(RenderDate(DateA))>>), TextColumn(<<Str(<<"$", "9">>)>>) >>),
      File(<<"o", "t", "r", "a", "-", "t", "a", "b", "l", "a", ".", "x", "l", "s", "x">>, << <<"a", "-", "b">> >>, << TextColumn(<<Str(<<"1">>), Null, Str(<<"3">>)>>) >>),
      File(<<"v", "e", "n", "t", "a", "s", ".", "t", "x", "t">>, << <<"P", "r", "e", "c", "i", "o">> >>, << TextColumn(<<Str(<<"8">>)>>) >>),
      File(<<"v", "e", "n", "t", "a", "s">>, << <<"P", "r", "e", "c", "i", "o">> >>, << TextColumn(<<Str(<<"8">>)>>) >>) }

TableNameArgs == {NoName, <<"t", "2">>}

LoadCall(called, tool, file, arg, result, tablesBefore, handleBefore) ==
    [called |-> called, tool |-> tool, file |-> file, arg |-> arg, result |-> result,
     tablesBefore |-> tablesBefore, handleBefore |-> handleBefore]

NoLoad == LoadCall(FALSE, "", <<>>, NoName, LoadFailure(<<>>), <<>>, NewHandle)

InitLoad ==
    /\ store = <<>>
    /\ handle = NewHandle
    /\ loadOut = NoLoad
    /\ IdleIngest /\ IdleIntro /\ IdleGraph /\ IdleSystem

\* the callers of load_file_to_sqlite: SQLiteBackend.load_file, and the
\* ingest_file tool (agents.py lines 38-54), which has no backend instance
LoadTools == {"load_file", "ingest_file"}

\* load_file_to_sqlite(file_path, table_name) called through tool; load_file
\* then sets the fields of the instance
Load(tool, file, arg) ==
    /\ \E r \in {load_file_to_sqlite(store, file, arg)} :
          /\ store' = r.tables
          /\ handle' = (IF tool = "load_file" THEN after_load(handle, r.result) ELSE handle)
          /\ loadOut' = LoadCall(TRUE, tool, file, arg, r.result, store, handle)
    /\ UNCHANGED <<ingestVars, introVars, graphVars, systemVars>>

NextLoad ==
    \E tool \in LoadTools : \E file \in LoadFiles : \E arg \in TableNameArgs :
        Load(tool, file, arg)

SpecLoad == InitLoad /\ [][NextLoad]_vars

---------------------------------------------------------------------------
(* Loads of files that are not read, and loads that succeed                *)

\* the extensions the specification names, as written
NamedExtensions == {<<".", "c", "s", "v">>, <<".", "x", "l", "s">>, <<".", "x", "l", "s", "x">>}

\* the last call loaded a file whose extension is none of the named ones
UnsupportedLoad ==
    /\ loadOut.called
    /\ file_ext(loadOut.file.name) \notin NamedExtensions

\* C21: a load of a file whose extension (lower-cased) is not .csv, .xls or
\* .xlsx returns success false with an error, leaves every table of the store
\* as it was, and leaves the loaded flag and the table name of the backend
\* instance as they were
C21_UnsupportedChangesNothing ==
    UnsupportedLoad =>
        /\ loadOut.result.success = FALSE
        /\ loadOut.result.error # <<>>
        /\ store = loadOut.tablesBefore
        /\ handle = loadOut.handleBefore

\* C21 witness: SQLiteBackend.load_file was given an unsupported file after
\* an earlier load had filled the store and set the fields of the instance
C21_Witness ==
    /\ UnsupportedLoad
    /\ loadOut.tool = "load_file"
    /\ loadOut.tablesBefore # <<>>
    /\ loadOut.handleBefore.file_loaded

\* the tables of a store other than the one named name, in their order
OtherTables(tables, name) == SelectSeq(tables, LAMBDA x : x.name # name)

\* the table of the store named name
TableNamed(tables, name) == tables[TablePos(tables, name)]

\* the cell a loaded table holds for a cell of the file: the cell itself, or
\* the timestamp read from it
StoredAs(stored, cell) ==
    \/ stored = cell
    \/ cell.kind = "str" /\ stored = parse_spanish_date(cell.text)

\* the last call loaded a file
SuccessfulLoad == loadOut.called /\ loadOut.result.success

\* C22: after a successful load into table T the store holds one table T,
\* with one column for each column of the file and, in each column, one cell
\* for each row of the file and no other; the other tables are the ones the
\* store held before; row_count is the number of rows of T
C22_ReplacesWholesale ==
    SuccessfulLoad =>
        LET name == loadOut.result.table_name
            file == loadOut.file
        IN /\ Cardinality({i \in 1..Len(store) : store[i].name = name}) = 1
           /\ LET T == TableNamed(store, name)
              IN /\ Len(T.columns) = Len(file.columns)
                 /\ T.columns = loadOut.result.columns
                 /\ Len(T.cells) = Len(file.cells)
                 /\ \A k \in 1..Len(file.cells) :
                       /\ Len(T.cells[k].vals) = Len(file.cells[k].vals)
                       /\ \A i \in 1..Len(file.cells[k].vals) :
                             StoredAs(T.cells[k].vals[i], file.cells[k].vals[i])
                 /\ loadOut.result.row_count = RowCount(T.cells)
                 /\ loadOut.result.row_count = RowCount(file.cells)
           /\ OtherTables(store, name) = OtherTables(loadOut.tablesBefore, name)

\* C22 witness: a file was loaded into a table that held the rows of another
\* file, while the store held a second table
C22_Witness ==
    /\ SuccessfulLoad
    /\ \E i \in 1..Len(loadOut.tablesBefore) :
          /\ loadOut.tablesBefore[i].name = loadOut.result.table_name
          /\ loadOut.tablesBefore[i].cells # TableNamed(store, loadOut.result.table_name).cells
    /\ OtherTables(store, loadOut.result.table_name) # <<>>

---------------------------------------------------------------------------
(* SpecGraph: one run of the ingestion graph of build_ingestion_graph, as  *)
(* DataQuerySystem.ingest invokes it. The answers of the model are free:   *)
(* any content, with or without tool calls.                                *)

\* the most nodes one run executes
MaxSteps == 8

\* the most tool calls one answer of the model asks for
MaxToolCalls == 2

\* the contents an answer of the model has
Contents == {<<>>, <<"s", "1">>, <<"s", "2">>}

AIMessage(content, tool_calls) == [type |-> "ai", tool_calls |-> tool_calls, content |-> content]

ToolMessage(content) == [type |-> "tool", tool_calls |-> 0, content |-> content]

\* the answers llm.invoke returns
Responses == {AIMessage(c, n) : c \in Contents, n \in 0..MaxToolCalls}

\* ToolNode: one ToolMessage for each tool call of the last message
ToolMessages(last) == [i \in 1..last.tool_calls |-> ToolMessage(<<"o", "u", "t">>)]

\* hasattr(last, "tool_calls") and last.tool_calls
HasToolCalls(msg) == msg.type = "ai" /\ msg.tool_calls > 0

\* ingestion_router, lines 71-76
ingestion_router(msgs) ==
    IF HasToolCalls(msgs[Len(msgs)]) THEN "ingestion_tools" ELSE "schema_agent"

\* a schema router that ends the run when the answer has no tool calls
schema_router_to_end(msgs) ==
    IF HasToolCalls(msgs[Len(msgs)]) THEN "schema_tools" ELSE "END"

\* schema_router, lines 86-91
schema_router(msgs) ==
    IF HasToolCalls(msgs[Len(msgs)]) THEN "schema_tools" ELSE "wait_for_question"

\* the positions of the AI messages without tool calls
PlainAnswers(msgs) == {i \in 1..Len(msgs) : msgs[i].type = "ai" /\ msgs[i].tool_calls = 0}

Highest(S) == CHOOSE i \in S : \A k \in S : k <= i

\* wait_for_question, lines 97-103: the schema_description of the state after
\* the node has run
wait_for_question(msgs, description) ==
    IF PlainAnswers(msgs) # {} THEN msgs[Highest(PlainAnswers(msgs))].content ELSE description

\* the state DataQuerySystem.ingest hands to the graph, lines 241-250
InitGraph ==
    /\ node = "START"
    /\ messages = <<>>
    /\ trace = <<>>
    /\ schema_description = <<>>
    /\ IdleIngest /\ IdleIntro /\ IdleLoad /\ IdleSystem

\* g.add_edge(START, "ingestion_agent")
Start ==
    /\ node = "START"
    /\ node' = "ingestion_agent"
    /\ UNCHANGED <<messages, trace, schema_description, ingestVars, introVars, loadVars, systemVars>>

\* the node ingestion_agent and its conditional edge
IngestionAgent(response) ==
    /\ node = "ingestion_agent"
    /\ messages' = Append(messages, response)
    /\ trace' = Append(trace, node)
    /\ node' = ingestion_router(messages')
    /\ UNCHANGED <<schema_description, ingestVars, introVars, loadVars, systemVars>>

\* the node ingestion_tools and its edge to schema_agent
IngestionTools ==
    /\ node = "ingestion_tools"
    /\ messages' = messages \o ToolMessages(messages[Len(messages)])
    /\ trace' = Append(trace, node)
    /\ node' = "schema_agent"
    /\ UNCHANGED <<schema_description, ingestVars, introVars, loadVars, systemVars>>

\* the node schema_agent and its conditional edge
SchemaAgent(response) ==
    /\ node = "schema_agent"
    /\ HasToolCalls(response) => Len(trace) + 3 <= MaxSteps
    /\ messages' = Append(messages, response)
    /\ trace' = Append(trace, node)
    /\ node' = schema_router(messages')
    /\ UNCHANGED <<schema_description, ingestVars, introVars, loadVars, systemVars>>

\* the node schema_tools and its edge back to schema_agent
SchemaTools ==
    /\ node = "schema_tools"
    /\ messages' = messages \o ToolMessages(messages[Len(messages)])
    /\ trace' = Append(trace, node)
    /\ node' = "schema_agent"
    /\ UNCHANGED <<schema_description, ingestVars, introVars, loadVars, systemVars>>

\* the node wait_for_question and its edge to END
WaitForQuestion ==
    /\ node = "wait_for_question"
    /\ schema_description' = wait_for_question(messages, schema_description)
    /\ trace' = Append(trace, node)
    /\ node' = "END"
    /\ UNCHANGED <<messages, ingestVars, introVars, loadVars, systemVars>>

NextGraph ==
    \/ Start
    \/ \E response \in Responses : IngestionAgent(response)
    \/ IngestionTools
    \/ \E response \in Responses : SchemaAgent(response)
    \/ SchemaTools
    \/ WaitForQuestion

SpecGraph == InitGraph /\ [][NextGraph]_vars

\* the number of runs of node n in the trace
RunsOf(n) == Cardinality({i \in 1..Len(trace) : trace[i] = n})

\* the answer of the model that came last among those without tool calls
LastPlainAnswer ==
    LET S == {i \in 1..Len(messages) : messages[i].type = "ai" /\ messages[i].tool_calls = 0}
    IN messages[CHOOSE i \in S : \A k \in S : k <= i]

\* C26: a run of the ingestion graph starts at ingestion_agent, runs
\* ingestion_tools at most once, runs schema_agent only after ingestion_agent
\* has answered, follows schema_tools by schema_agent, and is at END only
\* after wait_for_question has run last and has recorded the content of the
\* last AI message without tool calls as schema_description
C26_IngestionOrder ==
    /\ trace # <<>> => trace[1] = "ingestion_agent"
    /\ RunsOf("ingestion_agent") <= 1
    /\ RunsOf("ingestion_tools") <= 1
    /\ \A i \in 1..Len(trace) :
          /\ trace[i] = "schema_agent" =>
                \E k \in 1..(i - 1) : trace[k] = "ingestion_agent" /\ messages[k].type = "ai"
          /\ trace[i] = "ingestion_tools" => i = 2
          /\ (trace[i] = "schema_tools" /\ i < Len(trace)) => trace[i + 1] = "schema_agent"
          /\ trace[i] = "schema_tools" => trace[i - 1] = "schema_agent"
          /\ trace[i] = "wait_for_question" => (i = Len(trace) /\ node = "END")
    /\ node = "END" =>
          /\ trace[Len(trace)] = "wait_for_question"
          /\ trace[Len(trace) - 1] = "schema_agent"
          /\ schema_description = LastPlainAnswer.content
          /\ LastPlainAnswer = messages[Len(messages)]

\* C26 witness: a run that has called the ingestion tool and has gone through
\* the schema loop twice is at END with a description
C26_Witness ==
    /\ node = "END"
    /\ RunsOf("ingestion_tools") = 1
    /\ RunsOf("schema_tools") = 2
    /\ schema_description # <<>>

---------------------------------------------------------------------------
(* SpecSystem: the command line program of main.py and the page of app.py  *)
(* create a DataQuerySystem, fill it and ask questions. BackendRegistry    *)
(* and the DataQuerySystem live in the running process; data.db is a file  *)
(* and outlives it.                                                        *)

\* no DataQuerySystem has been created
NoSystem == <<>>

\* the table names the files of the pool are loaded into
FileTables == {<<"v", "e", "n", "t", "a", "s">>, <<"c", "l", "i", "e", "n", "t", "e", "s">>, <<"p", "e", "d", "i", "d", "o", "s">>}

Questions == {<<"q", "1">>, <<"q", "2">>}

\* a Schema Document, named by the store whose tables it describes
SchemaDocument(source, tables) == [source |-> source, tables |-> tables, text |-> <<>>]

\* the text query_agent uses when the registry holds no backend, line 129
NoDataSource ==
    [source |-> "none", tables |-> <<>>, text |-> <<"N", "o", " ", "d", "a", "t", "a", " ", "s", "o", "u", "r", "c", "e", " ", "c", "o", "n", "f", "i", "g", "u", "r", "e", "d", ".">>]

\* query_agent, lines 125-129: backend = BackendRegistry.get_backend(), then
\* backend.format_schema_for_llm() or the placeholder
raw_schema(active, tables) ==
    IF active = "sqlite" THEN SchemaDocument("sqlite", tables)
    ELSE IF active = "bigquery" THEN SchemaDocument("bigquery", BqTables)
    ELSE NoDataSource

\* the store the execute_sql tool runs a query on, agents.py line 73:
\* run_query of db_manager on data.db, whatever the registry holds
execute_sql_store(active) == "sqlite"

\* df.to_sql(table_name, conn, if_exists="replace") on the names of the tables
WithTable(tables, name) ==
    IF \E i \in 1..Len(tables) : tables[i] = name
    THEN Append(SelectSeq(tables, LAMBDA x : x # name), name)
    ELSE Append(tables, name)

\* DataQuerySystem.__init__, lines 224-231, and the fields ingest and
\* connect_bigquery set
DataQuerySystem(backend_type, ingested, description) ==
    [backend_type |-> backend_type, ingested |-> ingested, schema_description |-> description]

Session(process, data_source) == [process |-> process, data_source |-> data_source]

\* no process runs; data.db is as earlier runs have left it
InitSystem ==
    /\ activeBackend = ""
    /\ system = NoSystem
    /\ sqliteTables \in {<<>>, << <<"o", "l", "d">> >>}
    /\ lastAsk = <<>>
    /\ session = Session("", "")
    /\ IdleIngest /\ IdleIntro /\ IdleLoad /\ IdleGraph

\* main.py lines 31-42: system = DataQuerySystem(); system.ingest(file_path).
\* loaded: the ingestion agent has called ingest_file and the file was read
CliMain(table, loaded) ==
    /\ session.process = ""
    /\ session' = Session("cli", "")
    /\ activeBackend' = ""
    /\ system' = DataQuerySystem("sqlite", loaded, IF loaded THEN table ELSE <<>>)
    /\ sqliteTables' = (IF loaded THEN WithTable(sqliteTables, table) ELSE sqliteTables)
    /\ UNCHANGED <<lastAsk, ingestVars, introVars, loadVars, graphVars>>

\* the page of app.py is opened
UiOpen ==
    /\ session.process = ""
    /\ session' = Session("ui", "")
    /\ activeBackend' = ""
    /\ UNCHANGED <<system, sqliteTables, lastAsk, ingestVars, introVars, loadVars, graphVars>>

\* app.py lines 131-134: the button "Usar CSV/Excel"
UseCsv ==
    /\ session = Session("ui", "")
    /\ session' = Session("ui", "csv")
    /\ activeBackend' = "sqlite"
    /\ UNCHANGED <<system, sqliteTables, lastAsk, ingestVars, introVars, loadVars, graphVars>>

\* app.py lines 140-142: the button "Usar BigQuery"
UseBigQuery ==
    /\ session = Session("ui", "")
    /\ session' = Session("ui", "bigquery")
    /\ UNCHANGED <<activeBackend, system, sqliteTables, lastAsk, ingestVars, introVars, loadVars, graphVars>>

\* app.py lines 205-229: backend.load_file(tmp_path), and on success
\* DataQuerySystem(backend_type="sqlite") and system.ingest(tmp_path)
Upload(table, success, loaded) ==
    /\ session = Session("ui", "csv")
    /\ activeBackend' = (IF activeBackend = "" THEN "sqlite" ELSE activeBackend)
    /\ IF success
       THEN /\ sqliteTables' = WithTable(sqliteTables, table)
            /\ system' = DataQuerySystem("sqlite", loaded, IF loaded THEN table ELSE <<>>)
       ELSE UNCHANGED <<sqliteTables, system>>
    /\ UNCHANGED <<lastAsk, session, ingestVars, introVars, loadVars, graphVars>>

\* app.py lines 311-328: set_bigquery_backend, and when it is connected
\* DataQuerySystem(backend_type="bigquery") and system.connect_bigquery()
ConnectBigQuery(connected) ==
    /\ session = Session("ui", "bigquery")
    /\ activeBackend' = "bigquery"
    /\ system' = (IF connected THEN DataQuerySystem("bigquery", FALSE, BqTables[1]) ELSE system)
    /\ UNCHANGED <<sqliteTables, lastAsk, session, ingestVars, introVars, loadVars, graphVars>>

\* reset_to_source_selection, app.py lines 76-83
ResetToSourceSelection ==
    /\ session.process = "ui"
    /\ session.data_source # ""
    /\ activeBackend' = ""
    /\ system' = NoSystem
    /\ session' = Session("ui", "")
    /\ UNCHANGED <<sqliteTables, lastAsk, ingestVars, introVars, loadVars, graphVars>>

\* DataQuerySystem.ask, lines 290-316: query_agent builds the prompt, and the
\* agent answers at once or after a call of execute_sql (runs_sql)
Ask(question, runs_sql) ==
    /\ system # NoSystem
    /\ lastAsk' = [question |-> question,
                   process |-> session.process,
                   ingested |-> system.ingested,
                   registry |-> activeBackend,
                   tables |-> sqliteTables,
                   raw_schema |-> raw_schema(activeBackend, sqliteTables),
                   ran_on |-> IF runs_sql THEN execute_sql_store(activeBackend) ELSE ""]
    /\ UNCHANGED <<activeBackend, system, sqliteTables, session, ingestVars, introVars, loadVars, graphVars>>

\* the process ends: the registry and the DataQuerySystem go with it
Exit ==
    /\ session.process # ""
    /\ session' = Session("", "")
    /\ activeBackend' = ""
    /\ system' = NoSystem
    /\ UNCHANGED <<sqliteTables, lastAsk, ingestVars, introVars, loadVars, graphVars>>

NextSystem ==
    \/ \E table \in FileTables : \E loaded \in BOOLEAN : CliMain(table, loaded)
    \/ UiOpen
    \/ UseCsv
    \/ UseBigQuery
    \/ \E table \in FileTables : \E success \in BOOLEAN : \E loaded \in BOOLEAN :
          Upload(table, success, loaded)
    \/ \E connected \in BOOLEAN : ConnectBigQuery(connected)
    \/ ResetToSourceSelection
    \/ \E question \in Questions : \E runs_sql \in BOOLEAN : Ask(question, runs_sql)
    \/ Exit

SpecSystem == InitSystem /\ [][NextSystem]_vars

\* C27: a query the agent ran through execute_sql ran on the backend the
\* registry held, the one whose Schema Document was in the prompt
C27_RunsOnRegistryBackend ==
    (lastAsk # <<>> /\ lastAsk.ran_on # "") =>
        /\ lastAsk.ran_on = lastAsk.registry
        /\ lastAsk.ran_on = lastAsk.raw_schema.source

\* C27, with the BigQuery backend active: the query runs against BigQuery
C27_BigQueryRunsOnBigQuery ==
    (lastAsk # <<>> /\ lastAsk.ran_on # "" /\ lastAsk.registry = "bigquery") =>
        lastAsk.ran_on = "bigquery"

\* C28: an ask made after ingest has loaded a file has in its prompt the
\* Schema Document of the tables of data.db, not the placeholder
C28_PromptHasIngestedSchema ==
    (lastAsk # <<>> /\ lastAsk.ingested) =>
        lastAsk.raw_schema = SchemaDocument("sqlite", lastAsk.tables)

\* C28 in the page of app.py alone
C28_UiPromptHasIngestedSchema ==
    (lastAsk # <<>> /\ lastAsk.ingested /\ lastAsk.process = "ui") =>
        lastAsk.raw_schema = SchemaDocument("sqlite", lastAsk.tables)

===========================================================================
